---- MODULE Spec2Model ----
(***************************************************************************)
(* Competitor-Analysis-Engine: the feature-coverage matrix builder, the    *)
(* weighting engine and the ranking engine.                                *)
(*                                                                         *)
(* Python values are modelled as follows.                                  *)
(*   - a dict whose iteration order matters (product_features, the score   *)
(*     mapping) is the sequence of its items in insertion order, with      *)
(*     pairwise distinct keys;                                             *)
(*   - a dict whose order is never read (a feature of the catalog, the     *)
(*     weight table) is a function on its keys;                            *)
(*   - a weight is an integer number of tenths (1.3 is 13), a score an     *)
(*     integer number of hundredths (52.0 is 5200).                        *)
(*   - a pandas frame is the record of its column labels and its rows (or  *)
(*     of its index, its columns and its cells);                           *)
(*   - None passed for a parameter is recorded in none_args, the value of  *)
(*     the parameter's variable is then not read;                          *)
(*   - the store of st.cache_data is the set of its entries.               *)
(***************************************************************************)
EXTENDS Integers, Sequences, FiniteSets, TLC

VARIABLES
    features,           \* the catalog: list of feature dicts
    product_features,   \* the coverage map: items (product, feature_list)
    feature_weights,    \* the weight table: feature name -> weight (tenths)
    weighted_scores,    \* the score mapping: items (product, score)
    product_name,       \* the caller's own product
    matrix_df,          \* result of backend/matrix.py build_comparison_matrix
    legacy_df,          \* result of the Downloads copy of build_comparison_matrix
    rankings,           \* result of rank_products_by_score
    weighted_df,        \* result of create_weighted_comparison_matrix
    none_args,          \* the parameters the caller passes None for
    matrix_cache,       \* the entries st.cache_data holds for _cached_matrix_build
    session_state,      \* st.session_state of the web app
    llm_calls,          \* the requests sent to the OpenAI client, in order
    llm_cache,          \* the entries st.cache_data holds for the LLM wrappers
    returned,           \* the value the last call of a backend function returned
    called,             \* the functions that have returned
    raised              \* the exception the last call raised, "none" if none

vars == <<features, product_features, feature_weights, weighted_scores,
          product_name, matrix_df, legacy_df, rankings, weighted_df, none_args,
          matrix_cache, session_state, llm_calls, llm_cache, returned, called,
          raised>>

\* the variables of the web app and of the LLM-calling functions
app_vars == <<session_state, llm_calls, llm_cache, returned>>

\* the variables of the matrix builders, the weighting and the ranking engine
engine_vars == <<features, product_features, feature_weights, weighted_scores,
                 product_name, matrix_df, legacy_df, rankings, weighted_df, none_args,
                 matrix_cache>>

----------------------------------------------------------------------------
(* Bounds of the model *)

\* longest catalog
MaxFeatures == 2

\* longest coverage list of a product
MaxOwned == 2

----------------------------------------------------------------------------
(* Python built-ins *)

Range(s) == {s[i] : i \in DOMAIN s}

SeqsUpTo(S, n) == UNION {[1..k -> S] : k \in 0..n}

\* d.get(k, default)
dict_get(d, k, default) == IF k \in DOMAIN d THEN d[k] ELSE default

\* the code points of the strings the model sorts
CodePoints(s) ==
    CASE s = "Acme" -> <<65, 99, 109, 101>>
      [] s = "Beta" -> <<66, 101, 116, 97>>
      [] s = "acme" -> <<97, 99, 109, 101>>
      [] s = "SSO"  -> <<83, 83, 79>>
      [] s = "API"  -> <<65, 80, 73>>
      [] s = "sso"  -> <<115, 115, 111>>
      [] OTHER      -> <<>>

RECURSIVE seq_lt(_, _)
\* lexicographic order of two code point sequences
seq_lt(a, b) ==
    IF b = <<>> THEN FALSE
    ELSE IF a = <<>> THEN TRUE
    ELSE IF Head(a) # Head(b) THEN Head(a) < Head(b)
    ELSE seq_lt(Tail(a), Tail(b))

\* a < b on str
str_lt(a, b) == seq_lt(CodePoints(a), CodePoints(b))

RECURSIVE insert_sorted(_, _)
insert_sorted(s, x) ==
    IF s = <<>> THEN <<x>>
    ELSE IF str_lt(x, Head(s)) THEN <<x>> \o s
    ELSE <<Head(s)>> \o insert_sorted(Tail(s), x)

RECURSIVE sorted(_)
\* sorted(iterable of str): ascending, stable
sorted(s) ==
    IF s = <<>> THEN <<>>
    ELSE insert_sorted(sorted(SubSeq(s, 1, Len(s) - 1)), s[Len(s)])

\* list(d.keys()) of a dict given by its items
keys(items) == [i \in 1..Len(items) |-> items[i].product]

\* product_features.get(product, default)
coverage_get(items, product, default) ==
    IF \E i \in 1..Len(items) : items[i].product = product
    THEN items[CHOOSE i \in 1..Len(items) : items[i].product = product].feature_list
    ELSE default

RECURSIVE dedupe(_)
\* the keys of a dict built from a sequence of keys: first occurrence kept
dedupe(s) ==
    IF s = <<>> THEN <<>>
    ELSE LET front == dedupe(SubSeq(s, 1, Len(s) - 1))
         IN  IF s[Len(s)] \in Range(front) THEN front ELSE Append(front, s[Len(s)])

----------------------------------------------------------------------------
(* Ranking engine: weighting.py rank_products_by_score *)

RECURSIVE insert_desc(_, _)
\* x goes after every item whose score is >= its own: equal scores keep their order
insert_desc(s, x) ==
    IF s = <<>> THEN <<x>>
    ELSE IF Head(s).score >= x.score THEN <<Head(s)>> \o insert_desc(Tail(s), x)
    ELSE <<x>> \o s

RECURSIVE insert_asc(_, _)
insert_asc(s, x) ==
    IF s = <<>> THEN <<x>>
    ELSE IF Head(s).score <= x.score THEN <<Head(s)>> \o insert_asc(Tail(s), x)
    ELSE <<x>> \o s

RECURSIVE sorted_products_no_reverse(_)
\* the sort with reverse=True left out
sorted_products_no_reverse(items) ==
    IF items = <<>> THEN <<>>
    ELSE insert_asc(sorted_products_no_reverse(SubSeq(items, 1, Len(items) - 1)),
                    items[Len(items)])

RECURSIVE sorted_products(_)
\* sorted(weighted_scores.items(), key=lambda x: x[1], reverse=True): stable
sorted_products(items) ==
    IF items = <<>> THEN <<>>
    ELSE insert_desc(sorted_products(SubSeq(items, 1, Len(items) - 1)), items[Len(items)])

\* equal scores given one shared rank instead of the position
rank_products_shared_rank(ws, pn) ==
    LET sp == sorted_products(ws)
    IN  [i \in 1..Len(sp) |->
            [rank |-> 1 + Cardinality({k \in 1..Len(sp) : sp[k].score > sp[i].score}),
             product |-> sp[i].product, score |-> sp[i].score,
             is_main_product |-> sp[i].product = pn]]

\* weighted_scores.items() raises AttributeError on None
rank_exception(na) == IF "weighted_scores" \in na THEN "AttributeError" ELSE "none"

\* str.lower() on the product names of the model
product_lower(s) ==
    CASE s = "Acme" -> "acme"
      [] s = "Beta" -> "beta"
      [] OTHER      -> s

\* the caller's product recognised whatever the case of its letters
rank_products_case_folded(ws, pn) ==
    LET sp == sorted_products(ws)
    IN  [i \in 1..Len(sp) |->
            [rank |-> i, product |-> sp[i].product, score |-> sp[i].score,
             is_main_product |-> product_lower(sp[i].product) = product_lower(pn)]]

\* enumerate(sorted_products, 1): one dict per item, the flag by ==
rank_products_by_score(ws, pn) ==
    LET sp == sorted_products(ws)
    IN  [i \in 1..Len(sp) |->
            [rank |-> i, product |-> sp[i].product, score |-> sp[i].score,
             is_main_product |-> sp[i].product = pn]]

----------------------------------------------------------------------------
(* Matrix builder: backend/matrix.py (the copy app.py imports) *)

\* [f.get("feature_name", "") for f in features]
feature_names(fs) == [i \in 1..Len(fs) |-> dict_get(fs[i], "feature_name", "")]

\* str.lower() on the feature names of the model
lower(s) ==
    CASE s = "SSO" -> "sso"
      [] s = "API" -> "api"
      [] OTHER     -> s

\* the membership test made after case-folding both sides
cell_case_folded(pf, product, name) ==
    IF lower(name) \in {lower(x) : x \in Range(coverage_get(pf, product, <<>>))}
    THEN 1 ELSE 0

\* 1 if feature_name in product_features.get(product, []) else 0
cell(pf, product, name) ==
    IF name \in Range(coverage_get(pf, product, <<>>)) THEN 1 ELSE 0

\* the columns put in alphabetical order
_build_matrix_sorted_columns(fs, pf) ==
    LET product_names == sorted(keys(pf))
        columns == sorted(dedupe(feature_names(fs)))
    IN  [index   |-> product_names,
         columns |-> columns,
         data    |-> [c \in Range(columns) |->
                        [j \in 1..Len(product_names) |-> cell(pf, product_names[j], c)]]]

RECURSIVE owned_names(_)
\* every name of every coverage list, in order
owned_names(pf) ==
    IF pf = <<>> THEN <<>> ELSE Head(pf).feature_list \o owned_names(Tail(pf))

\* the columns taken from the catalog and from the coverage lists
_build_matrix_all_names(fs, pf) ==
    LET product_names == sorted(keys(pf))
        columns == dedupe(feature_names(fs) \o owned_names(pf))
    IN  [index   |-> product_names,
         columns |-> columns,
         data    |-> [c \in Range(columns) |->
                        [j \in 1..Len(product_names) |-> cell(pf, product_names[j], c)]]]

\* the products without any owned feature left out of the rows
_build_matrix_skip_empty(fs, pf) ==
    LET product_names == SelectSeq(sorted(keys(pf)),
                                   LAMBDA p : coverage_get(pf, p, <<>>) # <<>>)
        columns == dedupe(feature_names(fs))
    IN  [index   |-> product_names,
         columns |-> columns,
         data    |-> [c \in Range(columns) |->
                        [j \in 1..Len(product_names) |-> cell(pf, product_names[j], c)]]]

\* pd.DataFrame(matrix_data, index=product_names): one column per key of
\* matrix_data (a dict: a repeated feature name is one key), one row per product
_build_matrix(fs, pf) ==
    LET product_names == sorted(keys(pf))
        columns == dedupe(feature_names(fs))
    IN  [index   |-> product_names,
         columns |-> columns,
         data    |-> [c \in Range(columns) |->
                        [j \in 1..Len(product_names) |-> cell(pf, product_names[j], c)]]]

\* the call on a miss of st.cache_data
_cached_matrix_build(fs, pf) == _build_matrix(fs, pf)

\* st.cache_data: an entry for these arguments is held
cache_hit(cache, fs, pf) ==
    \E e \in cache : e.features = fs /\ e.product_features = pf

\* the value of an entry found by the catalog alone
cache_value_by_catalog(cache, fs, pf) ==
    (CHOOSE e \in cache : e.features = fs).value

\* st.cache_data: the value held for these arguments
cache_value(cache, fs, pf) ==
    (CHOOSE e \in cache : e.features = fs /\ e.product_features = pf).value

\* st.cache_data: the value is stored under the arguments after a miss
cache_store(cache, fs, pf, value) ==
    IF cache_hit(cache, fs, pf) THEN cache
    ELSE cache \cup {[features |-> fs, product_features |-> pf, value |-> value]}

\* iterating None raises TypeError, None.keys() AttributeError
build_exception(na) ==
    IF "features" \in na THEN "TypeError"
    ELSE IF "product_features" \in na THEN "AttributeError"
    ELSE "none"

build_comparison_matrix(fs, pf) == _cached_matrix_build(fs, pf)

----------------------------------------------------------------------------
(* Matrix builder: Downloads/Competitor-Analysis-Engine-main/backend/matrix.py *)

\* f["feature_name"] raises KeyError on a feature without that key
legacy_raises(fs) == \E i \in 1..Len(fs) : "feature_name" \notin DOMAIN fs[i]

\* line 16 iterates features and subscripts each, line 17 calls keys()
legacy_exception(na, fs) ==
    IF "features" \in na THEN "TypeError"
    ELSE IF legacy_raises(fs) THEN "KeyError"
    ELSE IF "product_features" \in na THEN "AttributeError"
    ELSE "none"

legacy_feature_names(fs) == [i \in 1..Len(fs) |-> fs[i]["feature_name"]]

\* "check" is the glyph U+2713, "cross" the glyph U+2717
legacy_mark(pf, product, name) ==
    IF name \in Range(coverage_get(pf, product, <<>>)) THEN "check" ELSE "cross"

\* row = {"Feature": feature_name}; then row[product] = ... for every product
legacy_row(pf, product_names, name) ==
    [k \in {"Feature"} \cup Range(product_names) |->
        IF k \in Range(product_names) THEN legacy_mark(pf, k, name) ELSE name]

\* pd.DataFrame(matrix_data) of a list of row dicts: the columns are the keys
\* of the rows in order of first appearance; no row, no column
legacy_build_comparison_matrix(fs, pf) ==
    LET names == legacy_feature_names(fs)
        product_names == keys(pf)
    IN  [columns |-> IF names = <<>> THEN <<>>
                     ELSE dedupe(<<"Feature">> \o product_names),
         rows    |-> [i \in 1..Len(names) |-> legacy_row(pf, product_names, names[i])]]

----------------------------------------------------------------------------
(* Weighting engine: weighting.py.  Weights in tenths, scores in hundredths *)

\* 1.0, the weight of a name the weight table does not hold
MissingFeatureWeight == 10

\* 1, the total weight used when the weights sum to 0
ClampedTotalWeight == 10

\* 1.0, the weight of a category the table below does not hold
UnknownCategoryWeight == 10

\* the table with the entries of Security and Integration exchanged
category_base_weights_exchanged ==
    ("Core Functionality" :> 15 @@ "Integration" :> 13 @@ "Security" :> 12 @@
     "Performance" :> 12 @@ "Pricing" :> 11 @@ "Support" :> 10 @@ "UI/UX" :> 10 @@
     "Analytics" :> 10 @@ "General" :> 10)

category_base_weights ==
    ("Core Functionality" :> 15 @@ "Integration" :> 12 @@ "Security" :> 13 @@
     "Performance" :> 12 @@ "Pricing" :> 11 @@ "Support" :> 10 @@ "UI/UX" :> 10 @@
     "Analytics" :> 10 @@ "General" :> 10)

\* feature['feature_name'] raises KeyError on a feature without that key
default_weights_raises(fs) == \E i \in 1..Len(fs) : "feature_name" \notin DOMAIN fs[i]

default_weights_exception(na, fs) ==
    IF "features" \in na THEN "TypeError"
    ELSE IF default_weights_raises(fs) THEN "KeyError"
    ELSE "none"

\* weights[feature['feature_name']] = base_weight, for each feature in turn:
\* the last feature of a name sets its weight
get_default_weights(fs) ==
    [n \in {fs[i]["feature_name"] : i \in 1..Len(fs)} |->
        LET last == CHOOSE i \in 1..Len(fs) :
                        /\ fs[i]["feature_name"] = n
                        /\ \A j \in 1..Len(fs) : fs[j]["feature_name"] = n => j <= i
        IN  dict_get(category_base_weights,
                     dict_get(fs[last], "category", "General"),
                     UnknownCategoryWeight)]

RECURSIVE sum_values(_)
\* sum(feature_weights.values())
sum_values(d) ==
    IF DOMAIN d = {} THEN 0
    ELSE LET k == CHOOSE k \in DOMAIN d : TRUE
         IN  d[k] + sum_values([x \in DOMAIN d \ {k} |-> d[x]])

RECURSIVE sum_owned(_, _)
\* score += feature_weights.get(feature_name, 1.0), for each name of the list
sum_owned(feature_list, fw) ==
    IF feature_list = <<>> THEN 0
    ELSE dict_get(fw, Head(feature_list), MissingFeatureWeight)
            + sum_owned(Tail(feature_list), fw)

\* a tie rounded up instead of to the even neighbour
round_half_up(n, d) == (2 * n + d) \div (2 * d)

\* round(x, 2) for x = n / d hundredths, n >= 0, d > 0: the nearest integer,
\* and the even one of the two when x lies exactly halfway
round_half_even(n, d) ==
    LET q == n \div d
        r == n % d
    IN  IF 2 * r < d THEN q
        ELSE IF 2 * r > d THEN q + 1
        ELSE IF q % 2 = 0 THEN q ELSE q + 1

\* the body of the loop over product_features.items()
product_score(feature_list, fw) ==
    LET total_weight == IF sum_values(fw) = 0 THEN ClampedTotalWeight ELSE sum_values(fw)
        score == sum_owned(feature_list, fw)
    IN  IF total_weight > 0
        THEN round_half_even(100 * 100 * score, total_weight)
        ELSE 0

\* feature_weights.values() and product_features.items() raise
\* AttributeError on None; features is not read
calculate_exception(na) ==
    IF "feature_weights" \in na \/ "product_features" \in na THEN "AttributeError"
    ELSE "none"

\* the parameter features is not read
calculate_weighted_scores(pf, fs, fw) ==
    [i \in 1..Len(pf) |->
        [product |-> pf[i].product, score |-> product_score(pf[i].feature_list, fw)]]

\* weighted_df['Feature'] raises KeyError on a frame without that column
weighted_raises(df) == "Feature" \notin Range(df.columns)

\* weighted_df['Feature'].map(feature_weights).fillna(1.0), for one row
weight_of(row, fw) == dict_get(fw, row["Feature"], MissingFeatureWeight)

\* [col for col in weighted_df.columns if col not in ['Feature', 'Weight']]
product_columns(df) == SelectSeq(df.columns, LAMBDA c : c \notin {"Feature", "Weight"})

\* f'{product}_Score'
score_column(product) == product \o "_Score"

\* one row of the copy: its cells, its Weight, and per product the Weight if
\* the cell is the check glyph, else 0
weighted_row(row, products, fw) ==
    [k \in DOMAIN row \cup {"Weight"} \cup {score_column(p) : p \in Range(products)} |->
        IF k = "Weight" THEN weight_of(row, fw)
        ELSE IF \E p \in Range(products) : k = score_column(p)
        THEN LET p == CHOOSE p \in Range(products) : k = score_column(p)
             IN  IF row[p] = "check" THEN weight_of(row, fw) ELSE 0
        ELSE row[k]]

\* matrix_df.copy() with the column Weight and one <product>_Score column per
\* product column added; matrix_df itself is not written
create_weighted_comparison_matrix(df, fw) ==
    LET products == product_columns(df)
    IN  [columns |-> dedupe(df.columns \o <<"Weight">>
                              \o [j \in 1..Len(products) |-> score_column(products[j])]),
         rows    |-> [i \in 1..Len(df.rows) |-> weighted_row(df.rows[i], products, fw)]]

----------------------------------------------------------------------------
(* backend/llm.py AgentLogger and utils/helpers.py.  A logger is the record *)
(* of its list logs; is_none tells the value None from a logger.            *)

\* AgentLogger(): self.logs = []
AgentLogger == [is_none |-> FALSE, logs |-> <<>>]

log_thought(logger, text) ==
    [logger EXCEPT !.logs = Append(@, [type |-> "thought", content |-> text])]

log_action(logger, text) ==
    [logger EXCEPT !.logs = Append(@, [type |-> "action", content |-> text])]

\* the type written with a slip of the pen
log_observation_misspelt(logger, text) ==
    [logger EXCEPT !.logs = Append(@, [type |-> "observaton", content |-> text])]

log_observation(logger, text) ==
    [logger EXCEPT !.logs = Append(@, [type |-> "observation", content |-> text])]

get_logs(logger) == logger.logs

\* if logger: logger.log_...(text)
if_logger(logger, logged) == IF logger.is_none THEN logger ELSE logged

\* bool(name and name.strip()), on the names of the model
strip(text) ==
    CASE text = "  "      -> ""
      [] text = " Slack " -> "Slack"
      [] OTHER            -> text

\* the name tested for emptiness alone
validate_product_name_unstripped(name) == name # ""

validate_product_name(name) == name # "" /\ strip(name) # ""

sanitize_input(text) == IF text = "" THEN "" ELSE strip(text)

\* the structured branch of format_log_entry: a value the logger stores is a
\* dict, never a str.  The prefixes are written without their emoji.
format_log_entry(log) ==
    LET log_type == dict_get(log, "type", "info")
        content  == dict_get(log, "content", "")
        details  == dict_get(log, "details", "")
    IN  IF log_type = "thought" THEN "**Thought**: " \o content
        ELSE IF log_type = "action"
        THEN IF details # "" THEN "**Action**: " \o content \o "\n   _" \o details \o "_"
             ELSE "**Action**: " \o content
        ELSE IF log_type = "observation" THEN "**Observation**: " \o content
        ELSE "(i) " \o content

----------------------------------------------------------------------------
(* Inputs *)

ProductNames == {"Acme", "Beta", "acme"}

\* scores in hundredths: 0.0, 52.0, 65.62, 100.0
ScoreValues == {0, 5200, 6562, 10000}

DistinctProducts(items) ==
    \A i, j \in 1..Len(items) : i # j => items[i].product # items[j].product

ScoreMappings ==
    {m \in SeqsUpTo([product : ProductNames, score : ScoreValues], Cardinality(ProductNames)) :
        DistinctProducts(m)}

MainProducts == {"Acme", "Beta", "Nobody"}

NoFrame == [index |-> <<>>, columns |-> <<>>, data |-> <<>>]

NoLegacyFrame == [columns |-> <<>>, rows |-> <<>>]

\* logger = None
NoLogger == [is_none |-> TRUE, logs |-> <<>>]

\* the session state after lines 66-76 of app.py; {} is the empty function
NoSession ==
    [analysis_complete |-> FALSE, results |-> <<>>, logger |-> NoLogger,
     loaded_analysis_id |-> "None"]

\* None, the value of a call that returns nothing or has not been made
None == [is_none |-> TRUE, value |-> <<>>]

\* no backend function has been called yet
NoValue ==
    [fn |-> "", use_cache |-> FALSE, raised |-> "none", message |-> "",
     is_none |-> TRUE, value |-> <<>>, stored |-> {}]

FeatureNames == {"SSO", "API", "sso"}

\* the category the model gives each feature name
CategoryOf(n) ==
    CASE n = "SSO" -> "Security"
      [] n = "API" -> "Integration"
      [] OTHER     -> "General"

CatalogEntries == {[feature_name |-> n, category |-> CategoryOf(n)] : n \in FeatureNames}

Catalogs == SeqsUpTo(CatalogEntries, MaxFeatures)

CoverageLists == SeqsUpTo(FeatureNames, MaxOwned)

MatrixProducts == {"Acme", "Beta"}

CoverageMaps ==
    {m \in SeqsUpTo([product : MatrixProducts, feature_list : CoverageLists],
                    Cardinality(MatrixProducts)) : DistinctProducts(m)}

WeightNames == <<"SSO", "API", "Chat">>

\* weights in tenths: 0, 1.0, 1.1, 1.2, 1.3
WeightValues == {0, 10, 11, 12, 13}

WeightTables == UNION {[S -> WeightValues] : S \in SUBSET Range(WeightNames)}

\* a category whose base weight is w, "General" when there is none
CategoryFor(w) ==
    CASE w = 13 -> "Security"
      [] w = 12 -> "Integration"
      [] w = 11 -> "Pricing"
      [] OTHER  -> "General"

\* the catalog of the names of a weight table, whose default weight table is
\* that table when all its weights are category weights
CatalogFor(fw) ==
    LET names == SelectSeq(WeightNames, LAMBDA n : n \in DOMAIN fw)
    IN  [i \in 1..Len(names) |->
            [feature_name |-> names[i], category |-> CategoryFor(fw[names[i]])]]

----------------------------------------------------------------------------
(* backend/cache.py and backend/database.py: the disabled stores *)

\* a store that holds a competitor list for every product
get_cached_competitors_stored(pn, company_name, description) ==
    [is_none |-> FALSE, value |-> <<[company_name |-> "Stored", product_name |-> "Stored"]>>]

get_cached_competitors(pn, company_name, description) == None

cache_competitors(pn, company_name, description, competitors) == None

get_cached_features(pn) == None

cache_features(pn, fs, pf) == None

save_analysis(pn, company_name, description, competitors, fs, pf) == 0

get_all_analyses == [is_none |-> FALSE, value |-> <<>>]

get_analysis_by_id(analysis_id) == None

\* if cached_result: neither None nor an empty list
truthy(cached_result) == ~cached_result.is_none /\ cached_result.value # <<>>

----------------------------------------------------------------------------
(* The st.cache_data wrappers of call_openai_json.  An outcome is what the  *)
(* OpenAI client does when it is asked: ok with the parsed JSON object, or  *)
(* not ok with the type and the text of the exception.                      *)

llm_hit(cache, fn, key) == \E e \in cache : e.fn = fn /\ e.key = key

llm_value(cache, fn, key) == (CHOOSE e \in cache : e.fn = fn /\ e.key = key).value

\* a hit returns the held value without a request; a miss sends the request
\* and stores the value unless call_openai_json raises
cached_llm_call(fn, key, cache, outcome) ==
    IF llm_hit(cache, fn, key)
    THEN [ok |-> TRUE, data |-> llm_value(cache, fn, key), llm_cache |-> cache,
          requests |-> <<>>]
    ELSE IF outcome.ok
    THEN [ok |-> TRUE, data |-> outcome.data,
          llm_cache |-> cache \cup {[fn |-> fn, key |-> key, value |-> outcome.data]},
          requests |-> <<[fn |-> fn, product_name |-> key.product_name]>>]
    ELSE [ok |-> FALSE, data |-> outcome.data, llm_cache |-> cache,
          requests |-> <<[fn |-> fn, product_name |-> key.product_name]>>]

cached_llm_competitor_discovery(key, cache, outcome) ==
    cached_llm_call("cached_llm_competitor_discovery", key, cache, outcome)

cached_llm_feature_extraction(key, cache, outcome) ==
    cached_llm_call("cached_llm_feature_extraction", key, cache, outcome)

_cached_differentiator_llm(key, cache, outcome) ==
    cached_llm_call("_cached_differentiator_llm", key, cache, outcome)

----------------------------------------------------------------------------
(* backend/competitors.py discover_competitors *)

RECURSIVE log_competitors(_, _)
\* one observation per competitor, with 'Unknown' for a missing key
log_competitors(logger, competitors) ==
    IF competitors = <<>> THEN logger
    ELSE log_competitors(
             log_observation(logger,
                 "  - " \o dict_get(Head(competitors), "company_name", "Unknown") \o ": "
                        \o dict_get(Head(competitors), "product_name", "Unknown")),
             Tail(competitors))

discover_competitors(pn, company_name, description, logger, use_cache, cache, outcome) ==
    LET cached_result == get_cached_competitors(pn, company_name, description)
    IN  IF use_cache /\ truthy(cached_result)
        THEN [raised |-> "none", message |-> "", is_none |-> FALSE,
              value |-> cached_result.value,
              logger |->
                  if_logger(logger,
                      log_observation(
                          log_thought(logger, "Found cached competitor data for: " \o pn),
                          "Using cached results (" \o ToString(Len(cached_result.value))
                              \o " competitors) - saved API call!")),
              llm_cache |-> cache, requests |-> <<>>, stores |-> {}]
        ELSE
        LET started ==
                if_logger(logger,
                    log_action(
                        log_thought(logger,
                            "Starting competitor discovery for product: " \o pn),
                        "Querying OpenAI to identify top competitors in the market"))
            key == [product_name |-> pn, company_name |-> company_name,
                    description |-> description]
            result == cached_llm_competitor_discovery(key, cache, outcome)
            competitors == dict_get(result.data, "competitors", <<>>)
        IN  IF result.ok
            THEN [raised |-> "none", message |-> "", is_none |-> FALSE,
                  value |-> competitors,
                  logger |->
                      if_logger(started,
                          log_competitors(
                              log_observation(started,
                                  "Successfully identified " \o ToString(Len(competitors))
                                      \o " competitors (cached for future use)"),
                              competitors)),
                  llm_cache |-> result.llm_cache, requests |-> result.requests,
                  stores |-> IF use_cache THEN {"cache_competitors"} ELSE {}]
            ELSE [raised |-> "Exception",
                  message |-> "Failed to discover competitors: " \o result.data.error,
                  is_none |-> TRUE, value |-> <<>>,
                  logger |->
                      if_logger(started,
                          log_observation(started,
                              "Error during competitor discovery: " \o result.data.error)),
                  llm_cache |-> result.llm_cache, requests |-> result.requests,
                  stores |-> {}]

----------------------------------------------------------------------------
(* backend/features.py extract_features *)

extract_features(pn, competitors, description, logger, use_cache, cache, outcome) ==
    LET cached_result == get_cached_features(pn)
    IN  IF use_cache /\ ~cached_result.is_none
        THEN [raised |-> "none", message |-> "", is_none |-> FALSE,
              value |-> cached_result.value,
              logger |->
                  if_logger(logger,
                      log_observation(
                          log_thought(logger, "Found cached feature data for: " \o pn),
                          "Using cached results ("
                              \o ToString(Len(cached_result.value["features"]))
                              \o " features) - saved API call!")),
              llm_cache |-> cache, requests |-> <<>>, stores |-> {}]
        ELSE
        LET started ==
                if_logger(logger,
                    log_action(
                        log_thought(logger,
                            "Extracting features from all products and competitors"),
                        "Analyzing features for " \o pn \o " and "
                            \o ToString(Len(competitors)) \o " competitors"))
            key == [product_name |-> pn, description |-> description,
                    competitors |-> competitors]
            result == cached_llm_feature_extraction(key, cache, outcome)
            fs == dict_get(result.data, "features", <<>>)
            pf == dict_get(result.data, "product_features", <<>>)
        IN  IF result.ok
            THEN [raised |-> "none", message |-> "", is_none |-> FALSE,
                  value |-> [features |-> fs, product_features |-> pf],
                  logger |->
                      if_logger(started,
                          log_observation(
                              log_observation(started,
                                  "Successfully extracted " \o ToString(Len(fs))
                                      \o " key features (cached for future use)"),
                              "Analyzed feature coverage for " \o ToString(Len(pf))
                                  \o " products")),
                  llm_cache |-> result.llm_cache, requests |-> result.requests,
                  stores |-> IF use_cache THEN {"cache_features"} ELSE {}]
            ELSE [raised |-> "Exception",
                  message |-> "Failed to extract features: " \o result.data.error,
                  is_none |-> TRUE, value |-> <<>>,
                  logger |->
                      if_logger(started,
                          log_observation(started,
                              "Error during feature extraction: " \o result.data.error)),
                  llm_cache |-> result.llm_cache, requests |-> result.requests,
                  stores |-> {}]

----------------------------------------------------------------------------
(* backend/matrix.py analyze_differentiators *)

\* sorted(list(all_features_set - your_features))
missing_names(pn, fs, pf) ==
    LET your_features == Range(coverage_get(pf, pn, <<>>))
    IN  sorted(dedupe(SelectSeq(legacy_feature_names(fs),
                                LAMBDA n : n \notin your_features)))

missing_capability_object(pn, feat) ==
    [title |-> feat,
     description |-> pn \o " does not currently offer '" \o feat
                        \o "', which competitors use to deliver value.",
     importance |-> "Medium"]

RECURSIVE next_match(_, _)
\* next((m for m in llm_missing if m["title"] == title), None): the first
\* entry of that title; m["title"] raises KeyError on an entry without title
next_match(llm_missing, title) ==
    IF llm_missing = <<>> THEN [raised |-> "none", found |-> FALSE, item |-> <<>>]
    ELSE IF "title" \notin DOMAIN Head(llm_missing)
    THEN [raised |-> "KeyError", found |-> FALSE, item |-> <<>>]
    ELSE IF Head(llm_missing)["title"] = title
    THEN [raised |-> "none", found |-> TRUE, item |-> Head(llm_missing)]
    ELSE next_match(Tail(llm_missing), title)

\* one entry per missing name: the LLM's entry of that title, else the placeholder
final_missing(pn, missing, llm_missing) ==
    [i \in 1..Len(missing) |->
        IF next_match(llm_missing, missing[i]).found
        THEN next_match(llm_missing, missing[i]).item
        ELSE missing_capability_object(pn, missing[i])]

\* what the prompt is built from: the messages are the fingerprint of the call
differentiator_messages(pn, fs, pf) ==
    [product_name |-> pn, all_feature_names |-> legacy_feature_names(fs),
     your_features |-> Range(coverage_get(pf, pn, <<>>)),
     missing |-> missing_names(pn, fs, pf)]

analyze_differentiators(pn, fs, pf, cache, outcome) ==
    IF legacy_raises(fs)
    THEN [raised |-> "KeyError", message |-> "'feature_name'", is_none |-> TRUE,
          value |-> <<>>, llm_cache |-> cache, requests |-> <<>>]
    ELSE
    LET missing == missing_names(pn, fs, pf)
        llm_json == _cached_differentiator_llm(differentiator_messages(pn, fs, pf),
                                               cache, outcome)
        llm_missing == dict_get(llm_json.data, "missing_capabilities", <<>>)
    IN  IF ~llm_json.ok
        THEN [raised |-> llm_json.data.type, message |-> llm_json.data.error,
              is_none |-> TRUE, value |-> <<>>,
              llm_cache |-> llm_json.llm_cache, requests |-> llm_json.requests]
        ELSE IF \E i \in 1..Len(missing) :
                    next_match(llm_missing, missing[i]).raised = "KeyError"
        THEN [raised |-> "KeyError", message |-> "'title'", is_none |-> TRUE,
              value |-> <<>>,
              llm_cache |-> llm_json.llm_cache, requests |-> llm_json.requests]
        ELSE [raised |-> "none", message |-> "", is_none |-> FALSE,
              value |-> [differentiators |-> dict_get(llm_json.data, "differentiators", <<>>),
                         missing_capabilities |-> final_missing(pn, missing, llm_missing),
                         recommendations |-> dict_get(llm_json.data, "recommendations", <<>>)],
              llm_cache |-> llm_json.llm_cache, requests |-> llm_json.requests]

----------------------------------------------------------------------------
(* The ranking engine on arbitrary score mappings *)

InitRank ==
    /\ weighted_scores \in ScoreMappings
    /\ product_name \in MainProducts
    /\ features = <<>>
    /\ product_features = <<>>
    /\ feature_weights = <<>>
    /\ matrix_df = NoFrame
    /\ legacy_df = NoLegacyFrame
    /\ rankings = <<>>
    /\ weighted_df = NoLegacyFrame
    /\ none_args = {}
    /\ matrix_cache = {}
    /\ session_state = NoSession
    /\ llm_calls = <<>>
    /\ llm_cache = {}
    /\ returned = NoValue
    /\ called = {}
    /\ raised = "none"

RankProductsByScore ==
    /\ IF rank_exception(none_args) # "none"
       THEN /\ raised' = rank_exception(none_args)
            /\ UNCHANGED <<rankings, called>>
       ELSE /\ rankings' = rank_products_by_score(weighted_scores, product_name)
            /\ called' = called \cup {"rank_products_by_score"}
            /\ raised' = "none"
    /\ UNCHANGED <<features, product_features, feature_weights, weighted_scores,
                   product_name, matrix_df, legacy_df, weighted_df, none_args,
                   matrix_cache>>
    /\ UNCHANGED app_vars

NextRank == RankProductsByScore

SpecRank == InitRank /\ [][NextRank]_vars

Ranked == "rank_products_by_score" \in called

\* C3: two products with the same score are ordered by product name ascending,
\* whatever the iteration order of the score mapping, and get distinct
\* consecutive ranks.
C3_TieBreakByName ==
    Ranked =>
        \A i \in 1..(Len(rankings) - 1) :
            rankings[i].score = rankings[i + 1].score =>
                /\ str_lt(rankings[i].product, rankings[i + 1].product)
                /\ rankings[i + 1].rank = rankings[i].rank + 1

\* C9: walking the ranking in order, the rank values are strictly increasing
\* and the score values are non-increasing.
C9_RankingMonotone ==
    Ranked =>
        \A i, j \in 1..Len(rankings) :
            i < j => /\ rankings[i].rank < rankings[j].rank
                     /\ rankings[i].score >= rankings[j].score

\* a mapping of three products whose scores are not already in descending order
C9_Witness ==
    /\ Ranked
    /\ Len(weighted_scores) = 3
    /\ weighted_scores[1].score < weighted_scores[2].score
    /\ weighted_scores[2].score > weighted_scores[3].score
    /\ rankings[1].score > rankings[3].score

\* C10: the ranking has exactly one entry per product of the score mapping,
\* carrying that product's score, with ranks 1, 2, ..., n in sequence order
\* (equal scores get consecutive ranks); an empty mapping yields an empty
\* sequence.
C10_OneEntryPerProduct ==
    Ranked =>
        /\ Len(rankings) = Len(weighted_scores)
        /\ \A i \in 1..Len(rankings) : rankings[i].rank = i
        /\ \A k \in 1..Len(weighted_scores) :
              \E i \in 1..Len(rankings) :
                  /\ rankings[i].product = weighted_scores[k].product
                  /\ rankings[i].score = weighted_scores[k].score
                  /\ \A j \in 1..Len(rankings) :
                        rankings[j].product = weighted_scores[k].product => j = i
        /\ (weighted_scores = <<>> => rankings = <<>>)

\* a mapping in which two products share a score
C10_Witness ==
    /\ Ranked
    /\ Len(rankings) = 3
    /\ rankings[1].score = rankings[2].score
    /\ rankings[2].score > rankings[3].score

\* C11: in the output of rank_products_by_score the flag is_main_product is
\* true for exactly the entry whose product equals main_product as a string
\* and false for every other entry; at most one entry is flagged, and none
\* when main_product is not a key of the score mapping.
C11_MainProductFlag ==
    Ranked =>
        /\ \A i \in 1..Len(rankings) :
               rankings[i].is_main_product = (rankings[i].product = product_name)
        /\ Cardinality({i \in 1..Len(rankings) : rankings[i].is_main_product}) <= 1
        /\ product_name \notin Range(keys(weighted_scores)) =>
               \A i \in 1..Len(rankings) : ~rankings[i].is_main_product

\* three products ranked, the caller's product flagged below the first rank
\* while a product whose name differs only by case is not
C11_Witness ==
    /\ Ranked
    /\ Len(rankings) = 3
    /\ product_name = "Acme"
    /\ \E i \in 2..3 : rankings[i].product = "Acme" /\ rankings[i].is_main_product
    /\ \E i \in 1..3 : rankings[i].product = "acme" /\ ~rankings[i].is_main_product

\* the caller's product is not among the ranked ones: nothing is flagged
MainProductAbsentRanked ==
    /\ Ranked
    /\ Len(rankings) >= 2
    /\ product_name = "Nobody"
    /\ \A i \in 1..Len(rankings) : ~rankings[i].is_main_product

----------------------------------------------------------------------------
(* The matrix builder on every catalog and coverage map of the bounds *)

InitMatrix ==
    /\ features \in Catalogs
    /\ product_features \in CoverageMaps
    /\ feature_weights = <<>>
    /\ weighted_scores = <<>>
    /\ product_name = "Acme"
    /\ matrix_df = NoFrame
    /\ legacy_df = NoLegacyFrame
    /\ rankings = <<>>
    /\ weighted_df = NoLegacyFrame
    /\ none_args = {}
    /\ matrix_cache = {}
    /\ session_state = NoSession
    /\ llm_calls = <<>>
    /\ llm_cache = {}
    /\ returned = NoValue
    /\ called = {}
    /\ raised = "none"

\* a hit returns the held value; a miss calls the function and, unless it
\* raises, stores what it returns
BuildComparisonMatrix ==
    /\ IF cache_hit(matrix_cache, features, product_features) /\ none_args = {}
       THEN /\ matrix_df' = cache_value(matrix_cache, features, product_features)
            /\ called' = called \cup {"build_comparison_matrix"}
            /\ raised' = "none"
            /\ UNCHANGED matrix_cache
       ELSE IF build_exception(none_args) # "none"
       THEN /\ raised' = build_exception(none_args)
            /\ UNCHANGED <<matrix_df, matrix_cache, called>>
       ELSE /\ matrix_df' = build_comparison_matrix(features, product_features)
            /\ matrix_cache' = cache_store(matrix_cache, features, product_features,
                                           build_comparison_matrix(features, product_features))
            /\ called' = called \cup {"build_comparison_matrix"}
            /\ raised' = "none"
    /\ UNCHANGED <<features, product_features, feature_weights, weighted_scores,
                   product_name, legacy_df, rankings, weighted_df, none_args>>
    /\ UNCHANGED app_vars

LegacyBuildComparisonMatrix ==
    /\ IF legacy_exception(none_args, features) # "none"
       THEN /\ raised' = legacy_exception(none_args, features)
            /\ UNCHANGED <<legacy_df, called>>
       ELSE /\ legacy_df' = legacy_build_comparison_matrix(features, product_features)
            /\ called' = called \cup {"legacy_build_comparison_matrix"}
            /\ raised' = "none"
    /\ UNCHANGED <<features, product_features, feature_weights, weighted_scores,
                   product_name, matrix_df, rankings, weighted_df, none_args,
                   matrix_cache>>
    /\ UNCHANGED app_vars

NextMatrix == BuildComparisonMatrix \/ LegacyBuildComparisonMatrix

SpecMatrix == InitMatrix /\ [][NextMatrix]_vars

Built == "build_comparison_matrix" \in called

LegacyBuilt == "legacy_build_comparison_matrix" \in called

\* the coverage maps that hold the same mapping as pf in another insertion order
Reorderings(pf) ==
    {[i \in 1..Len(pf) |-> pf[perm[i]]] : perm \in Permutations(1..Len(pf))}

UniqueNames(fs) ==
    \A i, j \in 1..Len(fs) : i # j => feature_names(fs)[i] # feature_names(fs)[j]

\* the product axis of a frame is in ascending name order
Ascending(names) == \A i, j \in 1..Len(names) : i < j => str_lt(names[i], names[j])

Scenario1Catalog ==
    << [feature_name |-> "SSO", category |-> "Security"],
       [feature_name |-> "API", category |-> "Integration"] >>

Scenario1Coverage ==
    << [product |-> "Acme", feature_list |-> <<"SSO">>],
       [product |-> "Beta", feature_list |-> <<"SSO", "API">>] >>

\* C5: the products of the matrix are ordered by name, so builds from coverage
\* maps that hold the same mapping in different insertion orders are identical.
C5_RowOrderDeterministic ==
    /\ Built =>
          /\ Ascending(matrix_df.index)
          /\ \A m \in Reorderings(product_features) :
                build_comparison_matrix(features, m) = matrix_df
    /\ LegacyBuilt =>
          \A m \in Reorderings(product_features) :
              legacy_build_comparison_matrix(features, m) = legacy_df

\* C5 for backend/matrix.py alone, where it holds
RowOrderDeterministicInBackend ==
    Built =>
        /\ Ascending(matrix_df.index)
        /\ \A m \in Reorderings(product_features) :
              build_comparison_matrix(features, m) = matrix_df

\* C6: for a catalog with unique feature names the matrix has exactly
\* |catalog| x |products| cells, each a boolean (1/0, or check/cross), and a
\* cell is false whenever the product's coverage list does not hold the feature.
C6_Dense ==
    UniqueNames(features) =>
        /\ Built =>
              /\ Len(matrix_df.columns) = Len(features)
              /\ Len(matrix_df.index) = Len(product_features)
              /\ DOMAIN matrix_df.data = Range(matrix_df.columns)
              /\ Cardinality({<<c, j>> \in Range(matrix_df.columns) \X (1..Len(matrix_df.index)) :
                                j \in DOMAIN matrix_df.data[c]})
                    = Len(features) * Len(product_features)
              /\ \A c \in Range(matrix_df.columns) :
                    /\ Len(matrix_df.data[c]) = Len(matrix_df.index)
                    /\ \A j \in 1..Len(matrix_df.index) :
                          /\ matrix_df.data[c][j] \in {0, 1}
                          /\ c \notin Range(coverage_get(product_features, matrix_df.index[j], <<>>))
                                => matrix_df.data[c][j] = 0
        /\ LegacyBuilt =>
              /\ Len(legacy_df.rows) = Len(features)
              /\ \A i \in 1..Len(legacy_df.rows) :
                    /\ DOMAIN legacy_df.rows[i] \ {"Feature"} = Range(keys(product_features))
                    /\ Cardinality(DOMAIN legacy_df.rows[i] \ {"Feature"}) = Len(product_features)
                    /\ \A p \in Range(keys(product_features)) :
                          /\ legacy_df.rows[i][p] \in {"check", "cross"}
                          /\ features[i].feature_name
                                \notin Range(coverage_get(product_features, p, <<>>))
                                => legacy_df.rows[i][p] = "cross"

\* two features, two products, one of them without any coverage data
C6_Witness ==
    /\ Built
    /\ LegacyBuilt
    /\ Len(features) = 2
    /\ UniqueNames(features)
    /\ Len(product_features) = 2
    /\ product_features[1].feature_list = <<>>
    /\ product_features[2].feature_list # <<>>

\* C7: the cell (product p, feature f) is true exactly when the name of f is an
\* element of coverage[p] under exact string equality; Scenario 1 yields
\* Acme -> {SSO: true, API: false}, Beta -> {SSO: true, API: true}.
C7_CellIffOwned ==
    /\ Built =>
          \A j \in 1..Len(matrix_df.index) : \A i \in 1..Len(features) :
              LET owned == coverage_get(product_features, matrix_df.index[j], <<>>)
                  n == features[i].feature_name
              IN  matrix_df.data[n][j] = 1 <=> \E k \in 1..Len(owned) : owned[k] = n
    /\ LegacyBuilt =>
          \A i \in 1..Len(features) : \A q \in 1..Len(product_features) :
              LET owned == product_features[q].feature_list
                  n == features[i].feature_name
              IN  legacy_df.rows[i][product_features[q].product] = "check"
                      <=> \E k \in 1..Len(owned) : owned[k] = n
    /\ (features = Scenario1Catalog /\ product_features = Scenario1Coverage) =>
          /\ Built =>
                matrix_df = [index   |-> <<"Acme", "Beta">>,
                             columns |-> <<"SSO", "API">>,
                             data    |-> ("SSO" :> <<1, 1>> @@ "API" :> <<0, 1>>)]
          /\ LegacyBuilt =>
                legacy_df.rows =
                    << ("Feature" :> "SSO" @@ "Acme" :> "check" @@ "Beta" :> "check"),
                       ("Feature" :> "API" @@ "Acme" :> "cross" @@ "Beta" :> "check") >>

\* Scenario 1 built by both copies
C7_Witness ==
    /\ Built
    /\ LegacyBuilt
    /\ features = Scenario1Catalog
    /\ product_features = Scenario1Coverage

\* the names a coverage list holds and the catalog does not
StrayNames ==
    UNION {Range(product_features[i].feature_list) : i \in 1..Len(product_features)}
        \ Range(feature_names(features))

\* C14: a feature name that a coverage list references and the catalog does
\* not contain never appears as a column (feature) of the matrix built by
\* build_comparison_matrix, and the build raises no error.
C14_StrayNameNoColumn ==
    /\ raised = "none"
    /\ Built =>
          \A n \in StrayNames :
              n \notin Range(matrix_df.columns) /\ n \notin DOMAIN matrix_df.data
    /\ LegacyBuilt =>
          \A n \in StrayNames :
              /\ n \notin Range(legacy_df.columns)
              /\ \A i \in 1..Len(legacy_df.rows) : legacy_df.rows[i]["Feature"] # n

\* both copies have built from a one-feature catalog and a coverage list that
\* names that feature and one the catalog lacks
C14_Witness ==
    /\ Built
    /\ LegacyBuilt
    /\ Len(features) = 1
    /\ StrayNames # {}
    /\ \E i \in 1..Len(product_features) :
           /\ features[1].feature_name \in Range(product_features[i].feature_list)
           /\ Range(product_features[i].feature_list) \cap StrayNames # {}

\* the Feature labels of the rows of a frame of the Downloads copy
FeatureLabels(df) == [i \in 1..Len(df.rows) |-> df.rows[i]["Feature"]]

\* C18: the features of the built matrix appear in the insertion order of the
\* catalog (the i-th feature of the matrix is the i-th catalog entry),
\* independently of the coverage map.  The names of a catalog are unique.
C18_CatalogOrder ==
    UniqueNames(features) =>
        /\ Built =>
              /\ Len(matrix_df.columns) = Len(features)
              /\ \A i \in 1..Len(features) :
                    matrix_df.columns[i] = features[i].feature_name
        /\ LegacyBuilt =>
              /\ Len(legacy_df.rows) = Len(features)
              /\ \A i \in 1..Len(features) :
                    FeatureLabels(legacy_df)[i] = features[i].feature_name

\* a catalog in descending name order, and a coverage map that lists its
\* features in the opposite order
C18_Witness ==
    /\ Built
    /\ LegacyBuilt
    /\ feature_names(features) = <<"SSO", "API">>
    /\ \E i \in 1..Len(product_features) :
           product_features[i].feature_list = <<"API", "SSO">>
    /\ matrix_df.columns = <<"SSO", "API">>
    /\ FeatureLabels(legacy_df) = <<"SSO", "API">>

\* C19: build_comparison_matrix accepts an empty catalog, yielding a matrix
\* with zero feature columns and one row per product, and a coverage map with
\* zero products, yielding a matrix with zero product rows; neither case
\* raises.  In the frame of the Downloads copy the features are the rows and
\* the products the columns beside Feature.
C19_EmptyInputs ==
    /\ (features = <<>> \/ product_features = <<>>) => raised = "none"
    /\ (Built /\ features = <<>>) =>
          /\ matrix_df.columns = <<>>
          /\ Len(matrix_df.index) = Len(product_features)
          /\ Range(matrix_df.index) = Range(keys(product_features))
    /\ (Built /\ product_features = <<>>) => matrix_df.index = <<>>
    /\ (LegacyBuilt /\ features = <<>>) =>
          /\ legacy_df.rows = <<>>
          /\ Range(legacy_df.columns) \ {"Feature"} = Range(keys(product_features))
    /\ (LegacyBuilt /\ product_features = <<>>) =>
          Range(legacy_df.columns) \ {"Feature"} = {}

\* C19 for backend/matrix.py alone, where it holds
EmptyInputsInBackend ==
    /\ (features = <<>> \/ product_features = <<>>) => raised = "none"
    /\ (Built /\ features = <<>>) =>
          /\ matrix_df.columns = <<>>
          /\ Len(matrix_df.index) = Len(product_features)
          /\ Range(matrix_df.index) = Range(keys(product_features))
    /\ (Built /\ product_features = <<>>) =>
          /\ matrix_df.index = <<>>
          /\ matrix_df.columns = dedupe(feature_names(features))

\* the backend copy has built from an empty catalog and two products
EmptyCatalogBuilt ==
    /\ Built
    /\ features = <<>>
    /\ Len(product_features) = 2
    /\ Len(matrix_df.index) = 2

----------------------------------------------------------------------------
(* The weighting engine on every weight table and coverage map of the bounds *)

InitScore ==
    /\ feature_weights \in WeightTables
    /\ features = CatalogFor(feature_weights)
    /\ product_features \in CoverageMaps
    /\ weighted_scores = <<>>
    /\ product_name = "Acme"
    /\ matrix_df = NoFrame
    /\ legacy_df = NoLegacyFrame
    /\ rankings = <<>>
    /\ weighted_df = NoLegacyFrame
    /\ none_args = {}
    /\ matrix_cache = {}
    /\ session_state = NoSession
    /\ llm_calls = <<>>
    /\ llm_cache = {}
    /\ returned = NoValue
    /\ called = {}
    /\ raised = "none"

CalculateWeightedScores ==
    /\ IF calculate_exception(none_args) # "none"
       THEN /\ raised' = calculate_exception(none_args)
            /\ UNCHANGED <<weighted_scores, called>>
       ELSE /\ weighted_scores' =
                   calculate_weighted_scores(product_features, features, feature_weights)
            /\ called' = called \cup {"calculate_weighted_scores"}
            /\ raised' = "none"
    /\ UNCHANGED <<features, product_features, feature_weights, product_name,
                   matrix_df, legacy_df, rankings, weighted_df, none_args, matrix_cache>>
    /\ UNCHANGED app_vars

NextScore == CalculateWeightedScores

SpecScore == InitScore /\ [][NextScore]_vars

Scored == "calculate_weighted_scores" \in called

\* the weight table is the default weight table of the catalog
DefaultTable == feature_weights = get_default_weights(features)

\* a list without its k-th element
Without(list, k) == SubSeq(list, 1, k - 1) \o SubSeq(list, k + 1, Len(list))

RECURSIVE TableWeightSum(_, _)
\* the sum of the table weights of the names of a list that the table holds
TableWeightSum(list, fw) ==
    IF list = <<>> THEN 0
    ELSE (IF Head(list) \in DOMAIN fw THEN fw[Head(list)] ELSE 0)
            + TableWeightSum(Tail(list), fw)

\* the number of names of a list that the table does not hold
Strays(list, fw) == Cardinality({k \in 1..Len(list) : list[k] \notin DOMAIN fw})

Abs(x) == IF x < 0 THEN -x ELSE x

\* every coverage list holds a name at most once (owned features are a set)
NoDuplicates ==
    \A i \in 1..Len(product_features) :
        LET list == product_features[i].feature_list
        IN  \A k, l \in 1..Len(list) : k # l => list[k] # list[l]

\* C1: with a positive total weight every score s has 0 <= s <= 100.
C1_ScoreBounds ==
    (Scored /\ NoDuplicates /\ sum_values(feature_weights) > 0) =>
        \A i \in 1..Len(weighted_scores) :
            0 <= weighted_scores[i].score /\ weighted_scores[i].score <= 100 * 100

\* C2: with the default weight table of the catalog, a name of a coverage list
\* that matches no catalog feature contributes nothing: the score is the one
\* computed with that name removed from the list.
C2_StrayNameContributesNothing ==
    (Scored /\ DefaultTable) =>
        \A i \in 1..Len(product_features) :
            LET list == product_features[i].feature_list
            IN  \A k \in 1..Len(list) :
                    list[k] \notin Range(feature_names(features)) =>
                        weighted_scores[i].score
                            = calculate_weighted_scores(
                                  <<[product |-> product_features[i].product,
                                     feature_list |-> Without(list, k)]>>,
                                  features, feature_weights)[1].score

\* C4: when every weight of the table is 0 no exception is raised and every
\* product scores 0.0, whatever names the coverage lists hold.
C4_ZeroTotalWeight ==
    (/\ Scored
     /\ DOMAIN feature_weights # {}
     /\ \A n \in DOMAIN feature_weights : feature_weights[n] = 0) =>
        /\ raised = "none"
        /\ Len(weighted_scores) = Len(product_features)
        /\ \A i \in 1..Len(weighted_scores) : weighted_scores[i].score = 0

\* C8 as stated, for coverage lists that hold features of the weight table,
\* each at most once: the score is 100 * (sum of the weights of the owned
\* features) / (sum of all weights), rounded to 2 decimals half-up; Scenario 1
\* scores Acme = 52.0 and Beta = 100.0.
C8_ScoreFormulaHalfUp ==
    Scored =>
        /\ sum_values(feature_weights) > 0 =>
              \A i \in 1..Len(weighted_scores) :
                  (/\ NoDuplicates
                   /\ Strays(product_features[i].feature_list, feature_weights) = 0) =>
                  weighted_scores[i].score
                      = round_half_up(
                            100 * 100 * TableWeightSum(product_features[i].feature_list,
                                                       feature_weights),
                            sum_values(feature_weights))
        /\ (product_features = Scenario1Coverage /\ features = Scenario1Catalog
                /\ DefaultTable) =>
              weighted_scores = << [product |-> "Acme", score |-> 5200],
                                   [product |-> "Beta", score |-> 10000] >>

\* C8 as amended: the score is 100 * S / T rounded to the nearest hundredth, an
\* exact tie going to the even hundredth, where S sums over the names of the
\* coverage list the table weight of the name, 1.0 for a name the table does
\* not hold, and T is the sum of all weights, 1 when that sum is 0; Scenario 1
\* scores Acme = 52.0 and Beta = 100.0.
C8_ScoreFormulaHalfEven ==
    Scored =>
        /\ \A i \in 1..Len(weighted_scores) :
              LET list == product_features[i].feature_list
                  S == TableWeightSum(list, feature_weights)
                          + MissingFeatureWeight * Strays(list, feature_weights)
                  T == IF sum_values(feature_weights) = 0 THEN ClampedTotalWeight
                       ELSE sum_values(feature_weights)
                  h == weighted_scores[i].score
              IN  /\ weighted_scores[i].product = product_features[i].product
                  /\ 2 * Abs(h * T - 100 * 100 * S) <= T
                  /\ 2 * Abs(h * T - 100 * 100 * S) = T => h % 2 = 0
        /\ Len(weighted_scores) = Len(product_features)
        /\ (product_features = Scenario1Coverage /\ features = Scenario1Catalog
                /\ DefaultTable) =>
              weighted_scores = << [product |-> "Acme", score |-> 5200],
                                   [product |-> "Beta", score |-> 10000] >>

\* default weights 1.1, 1.0, 1.1 and a product owning 2.1 of the 3.2: 65.625,
\* an exact tie, scored 65.62
C8_Witness ==
    /\ Scored
    /\ DefaultTable
    /\ sum_values(feature_weights) = 32
    /\ \E i \in 1..Len(weighted_scores) :
          /\ sum_owned(product_features[i].feature_list, feature_weights) = 21
          /\ Strays(product_features[i].feature_list, feature_weights) = 0
          /\ weighted_scores[i].score = 6562

\* every product owns only names of the table or the name n
OwnedWithin(n) ==
    \A i \in 1..Len(product_features) :
        Range(product_features[i].feature_list) \subseteq DOMAIN feature_weights \cup {n}

\* C13: a catalog feature absent from the override weight table has weight
\* 1.0: calculate_weighted_scores returns the same scores as it does for the
\* table extended with that feature at weight 1.0.
C13_AbsentFeatureWeighsOne ==
    Scored =>
        \A n \in Range(WeightNames) \ DOMAIN feature_weights :
            (NoDuplicates /\ OwnedWithin(n)) =>
                weighted_scores =
                    calculate_weighted_scores(
                        product_features,
                        Append(features, [feature_name |-> n, category |-> "General"]),
                        (n :> MissingFeatureWeight) @@ feature_weights)

----------------------------------------------------------------------------
(* The default weight table and both matrix builders on catalogs of every   *)
(* category, with and without the keys feature_name and category            *)

\* the categories of the table and one it does not hold
Categories == DOMAIN category_base_weights \cup {"Exotic"}

KeyedNames == {"SSO", "API"}

\* feature dicts: both keys, no category, no feature_name, neither
KeyedCatalogEntries ==
    {[feature_name |-> n, category |-> c] : n \in KeyedNames, c \in Categories}
        \cup {[feature_name |-> n] : n \in KeyedNames}
        \cup {[category |-> "Security"], <<>>}

KeyedCatalogs == SeqsUpTo(KeyedCatalogEntries, MaxFeatures)

KeyedCoverageMaps == {<<>>, Scenario1Coverage}

InitWeights ==
    /\ features \in KeyedCatalogs
    /\ product_features \in KeyedCoverageMaps
    /\ product_name = "Acme"
    /\ feature_weights = <<>>
    /\ weighted_scores = <<>>
    /\ matrix_df = NoFrame
    /\ legacy_df = NoLegacyFrame
    /\ rankings = <<>>
    /\ weighted_df = NoLegacyFrame
    /\ none_args = {}
    /\ matrix_cache = {}
    /\ session_state = NoSession
    /\ llm_calls = <<>>
    /\ llm_cache = {}
    /\ returned = NoValue
    /\ called = {}
    /\ raised = "none"

GetDefaultWeights ==
    /\ IF default_weights_exception(none_args, features) # "none"
       THEN /\ raised' = default_weights_exception(none_args, features)
            /\ UNCHANGED <<feature_weights, called>>
       ELSE /\ feature_weights' = get_default_weights(features)
            /\ called' = called \cup {"get_default_weights"}
            /\ raised' = "none"
    /\ UNCHANGED <<features, product_features, weighted_scores, product_name,
                   matrix_df, legacy_df, rankings, weighted_df, none_args,
                   matrix_cache>>
    /\ UNCHANGED app_vars

NextWeights == GetDefaultWeights \/ BuildComparisonMatrix \/ LegacyBuildComparisonMatrix

SpecWeights == InitWeights /\ [][NextWeights]_vars

DefaultWeightsComputed == "get_default_weights" \in called

\* the constant the weighting policy gives a category
CategoryConstant(c) ==
    CASE c = "Core Functionality" -> 15
      [] c = "Security"           -> 13
      [] c = "Integration"        -> 12
      [] c = "Performance"        -> 12
      [] c = "Pricing"            -> 11
      [] c = "Support"            -> 10
      [] c = "UI/UX"              -> 10
      [] c = "Analytics"          -> 10
      [] OTHER                    -> 10

\* the feature at position i is the last of its name
LastOfName(fs, i) == \A j \in 1..Len(fs) : fs[j].feature_name = fs[i].feature_name => j <= i

\* C12: get_default_weights maps every catalog feature name to the constant
\* of its category (Core Functionality 1.5, Security 1.3, Integration 1.2,
\* Performance 1.2, Pricing 1.1, Support 1.0, UI/UX 1.0, Analytics 1.0) and to
\* 1.0 when the category is unrecognized or absent; the table has exactly one
\* entry per catalog feature name.
C12_DefaultWeights ==
    DefaultWeightsComputed =>
        /\ DOMAIN feature_weights = {features[i].feature_name : i \in 1..Len(features)}
        /\ \A i \in 1..Len(features) :
               LastOfName(features, i) =>
                   feature_weights[features[i].feature_name] =
                       IF "category" \in DOMAIN features[i]
                       THEN CategoryConstant(features[i].category)
                       ELSE 10

\* a Security feature and a feature without category, weighted 1.3 and 1.0
C12_Witness ==
    /\ DefaultWeightsComputed
    /\ features = <<[feature_name |-> "SSO", category |-> "Security"],
                    [feature_name |-> "API"]>>
    /\ feature_weights = ("SSO" :> 13 @@ "API" :> 10)

\* a category outside the table gets 1.0
UnrecognizedCategoryWeighted ==
    /\ DefaultWeightsComputed
    /\ features = <<[feature_name |-> "API", category |-> "Exotic"]>>
    /\ feature_weights = ("API" :> 10)

\* C17: a missing key in the catalog or coverage data (a catalog entry
\* without a feature_name or category key) never makes build_comparison_matrix
\* or get_default_weights throw a key error: the affected feature is treated
\* as unowned.
C17_MissingKeyTolerated ==
    /\ raised # "KeyError"
    /\ Built =>
          \A i \in 1..Len(features) :
              "feature_name" \notin DOMAIN features[i] =>
                  \A j \in 1..Len(matrix_df.index) : matrix_df.data[""][j] = 0

\* C17 for backend/matrix.py alone, where it holds: a feature without a name
\* becomes the column "" that no product owns
MissingKeyToleratedInBackend ==
    Built =>
        \A i \in 1..Len(features) :
            "feature_name" \notin DOMAIN features[i] =>
                /\ "" \in Range(matrix_df.columns)
                /\ \A j \in 1..Len(matrix_df.index) : matrix_df.data[""][j] = 0

\* the backend copy has built from a catalog with a nameless feature
NamelessFeatureBuilt ==
    /\ Built
    /\ Len(features) = 2
    /\ "feature_name" \notin DOMAIN features[2]
    /\ Len(matrix_df.index) = 2

----------------------------------------------------------------------------
(* The weighted comparison matrix of the frames the Downloads copy builds *)

OwnedLists == {<<>>, <<"SSO">>, <<"API">>, <<"SSO", "API">>}

WeightedCoverageMaps ==
    {m \in SeqsUpTo([product : MatrixProducts, feature_list : OwnedLists],
                    Cardinality(MatrixProducts)) : DistinctProducts(m)}

\* override tables: any subset of the names SSO and API, at 0, 1.0 or 1.3
OverrideTables == UNION {[S -> {0, 10, 13}] : S \in SUBSET {"SSO", "API"}}

InitWeighted ==
    /\ features \in Catalogs
    /\ product_features \in WeightedCoverageMaps
    /\ feature_weights \in OverrideTables
    /\ product_name = "Acme"
    /\ weighted_scores = <<>>
    /\ matrix_df = NoFrame
    /\ legacy_df = NoLegacyFrame
    /\ rankings = <<>>
    /\ weighted_df = NoLegacyFrame
    /\ none_args = {}
    /\ matrix_cache = {}
    /\ session_state = NoSession
    /\ llm_calls = <<>>
    /\ llm_cache = {}
    /\ returned = NoValue
    /\ called = {}
    /\ raised = "none"

\* the caller passes the frame build_comparison_matrix returned
CreateWeightedComparisonMatrix ==
    /\ LegacyBuilt
    /\ IF weighted_raises(legacy_df)
       THEN /\ raised' = "KeyError"
            /\ UNCHANGED <<weighted_df, called>>
       ELSE /\ weighted_df' = create_weighted_comparison_matrix(legacy_df, feature_weights)
            /\ called' = called \cup {"create_weighted_comparison_matrix"}
            /\ raised' = "none"
    /\ UNCHANGED <<features, product_features, feature_weights, weighted_scores,
                   product_name, matrix_df, legacy_df, rankings, none_args,
                   matrix_cache>>
    /\ UNCHANGED app_vars

NextWeighted == LegacyBuildComparisonMatrix \/ CreateWeightedComparisonMatrix

SpecWeighted == InitWeighted /\ [][NextWeighted]_vars

Weighted == "create_weighted_comparison_matrix" \in called

\* the frame holds, for every feature, its weight and, for every product
\* column of the input and every feature, the weight if owned and 0 otherwise
WeightedStructure ==
    /\ weighted_df # legacy_df
    /\ Len(weighted_df.rows) = Len(legacy_df.rows)
    /\ Len(weighted_df.columns) = Len(legacy_df.columns) + 1 + Len(product_features)
    /\ \A i \in 1..Len(legacy_df.rows) :
          LET row == weighted_df.rows[i]
              name == features[i].feature_name
          IN  /\ row["Feature"] = name
              /\ row["Weight"] = IF name \in DOMAIN feature_weights
                                 THEN feature_weights[name] ELSE 10
              /\ \A q \in 1..Len(product_features) :
                    LET p == product_features[q].product
                    IN  /\ row[p] = legacy_df.rows[i][p]
                        /\ score_column(p) \in Range(weighted_df.columns)
                        /\ row[score_column(p)] =
                              IF name \in Range(product_features[q].feature_list)
                              THEN row["Weight"] ELSE 0

\* C15: create_weighted_comparison_matrix returns a new structure that holds,
\* for every feature, its weight and, for every product and feature, a
\* contribution equal to the weight if the product owns the feature and 0
\* otherwise, one contribution column per product column of the input matrix,
\* and it leaves the input matrix unchanged.
C15_WeightedMatrix ==
    /\ raised # "KeyError"
    /\ LegacyBuilt => legacy_df = legacy_build_comparison_matrix(features, product_features)
    /\ Weighted => WeightedStructure

\* C15 for the frames that have at least one feature row, where it holds
WeightedMatrixOfNonEmptyCatalog ==
    /\ LegacyBuilt => legacy_df = legacy_build_comparison_matrix(features, product_features)
    /\ Weighted => WeightedStructure
    /\ (features # <<>> /\ LegacyBuilt) => raised = "none"

\* Scenario 1 weighted with a table that lacks API
WeightedScenario1 ==
    /\ Weighted
    /\ features = Scenario1Catalog
    /\ product_features = Scenario1Coverage
    /\ feature_weights = ("SSO" :> 13)
    /\ weighted_df.rows[2] = ("Feature" :> "API" @@ "Acme" :> "cross" @@ "Beta" :> "check"
                                @@ "Weight" :> 10 @@ "Acme_Score" :> 0 @@ "Beta_Score" :> 10)

----------------------------------------------------------------------------
(* The four functions called with None in place of an argument *)

\* the list and dict parameters of the four functions
NoneParameters == {"features", "product_features", "feature_weights", "weighted_scores"}

\* the score mapping of Scenario 1 under the default weights
Scenario1Scores ==
    << [product |-> "Acme", score |-> 5200], [product |-> "Beta", score |-> 10000] >>

InitInvalid ==
    /\ none_args \in SUBSET NoneParameters
    /\ features \in {<<>>, Scenario1Catalog}
    /\ product_features = Scenario1Coverage
    /\ feature_weights \in {<<>>, "SSO" :> 13}
    /\ weighted_scores = Scenario1Scores
    /\ product_name = "Acme"
    /\ matrix_df = NoFrame
    /\ legacy_df = NoLegacyFrame
    /\ rankings = <<>>
    /\ weighted_df = NoLegacyFrame
    /\ matrix_cache = {}
    /\ session_state = NoSession
    /\ llm_calls = <<>>
    /\ llm_cache = {}
    /\ returned = NoValue
    /\ called = {}
    /\ raised = "none"

NextInvalid ==
    \/ BuildComparisonMatrix
    \/ LegacyBuildComparisonMatrix
    \/ GetDefaultWeights
    \/ CalculateWeightedScores
    \/ RankProductsByScore

SpecInvalid == InitInvalid /\ [][NextInvalid]_vars

\* the list and dict parameters of each function
ParametersOf ==
    ("build_comparison_matrix" :> {"features", "product_features"} @@
     "legacy_build_comparison_matrix" :> {"features", "product_features"} @@
     "get_default_weights" :> {"features"} @@
     "calculate_weighted_scores" :> {"product_features", "features", "feature_weights"} @@
     "rank_products_by_score" :> {"weighted_scores"})

\* C16: a structurally wrong argument (None in place of the catalog list or of
\* the coverage map) passed to build_comparison_matrix, get_default_weights,
\* calculate_weighted_scores or rank_products_by_score fails immediately with
\* an InvalidInput error; nothing is computed and nothing is cached.
C16_InvalidInput ==
    /\ raised \in {"none", "InvalidInput"}
    /\ \A f \in DOMAIN ParametersOf :
          ParametersOf[f] \cap none_args # {} => f \notin called
    /\ {"features", "product_features"} \cap none_args # {} => matrix_cache = {}

\* the part of C16 that holds: a call given None for a parameter it reads
\* returns nothing and stores nothing, and the error is a TypeError or an
\* AttributeError
NoneArgumentRaises ==
    /\ raised \in {"none", "TypeError", "AttributeError"}
    /\ "features" \in none_args =>
          called \cap {"build_comparison_matrix", "legacy_build_comparison_matrix",
                       "get_default_weights"} = {}
    /\ "product_features" \in none_args =>
          called \cap {"build_comparison_matrix", "legacy_build_comparison_matrix",
                       "calculate_weighted_scores"} = {}
    /\ "feature_weights" \in none_args => "calculate_weighted_scores" \notin called
    /\ "weighted_scores" \in none_args => "rank_products_by_score" \notin called
    /\ {"features", "product_features"} \cap none_args # {} => matrix_cache = {}

\* calculate_weighted_scores has returned scores although its catalog is None
ScoredWithoutCatalog ==
    /\ none_args = {"features"}
    /\ "calculate_weighted_scores" \in called
    /\ raised = "none"

----------------------------------------------------------------------------
(* The four functions called again and again, on changing arguments *)

PureCatalogs == {<<[feature_name |-> "API", category |-> "Integration"]>>, Scenario1Catalog}

PureCoverageMaps ==
    {Scenario1Coverage,
     << [product |-> "Beta", feature_list |-> <<"API">>],
        [product |-> "Acme", feature_list |-> <<"SSO", "API">>] >>}

InitPure ==
    /\ features \in PureCatalogs
    /\ product_features \in PureCoverageMaps
    /\ feature_weights = <<>>
    /\ weighted_scores = <<>>
    /\ product_name = "Acme"
    /\ matrix_df = NoFrame
    /\ legacy_df = NoLegacyFrame
    /\ rankings = <<>>
    /\ weighted_df = NoLegacyFrame
    /\ none_args = {}
    /\ matrix_cache = {}
    /\ session_state = NoSession
    /\ llm_calls = <<>>
    /\ llm_cache = {}
    /\ returned = NoValue
    /\ called = {}
    /\ raised = "none"

\* the caller turns to another catalog and another coverage map
NewArguments ==
    /\ features' \in PureCatalogs
    /\ product_features' \in PureCoverageMaps
    /\ UNCHANGED <<feature_weights, weighted_scores, product_name, matrix_df, legacy_df,
                   rankings, weighted_df, none_args, matrix_cache, called, raised>>
    /\ UNCHANGED app_vars

NextPure ==
    \/ NewArguments
    \/ BuildComparisonMatrix
    \/ GetDefaultWeights
    \/ CalculateWeightedScores
    \/ RankProductsByScore

SpecPure == InitPure /\ [][NextPure]_vars

\* C20: build_comparison_matrix, get_default_weights, calculate_weighted_scores
\* and rank_products_by_score leave their arguments (catalog, coverage map,
\* weight table, score mapping) unchanged and keep no state between calls: the
\* result of a call depends only on its arguments, not on earlier calls.
C20_Pure ==
    [][ /\ BuildComparisonMatrix =>
              /\ features' = features /\ product_features' = product_features
              /\ matrix_df' = _build_matrix(features, product_features)
        /\ GetDefaultWeights =>
              /\ features' = features
              /\ feature_weights' = get_default_weights(features)
        /\ CalculateWeightedScores =>
              /\ features' = features /\ product_features' = product_features
              /\ feature_weights' = feature_weights
              /\ weighted_scores' =
                    calculate_weighted_scores(product_features, features, feature_weights)
        /\ RankProductsByScore =>
              /\ weighted_scores' = weighted_scores /\ product_name' = product_name
              /\ rankings' = rank_products_by_score(weighted_scores, product_name)
      ]_vars

\* all four functions have returned, the matrix has been built for three
\* different pairs of arguments, and the frame at hand is the one of the
\* current pair, which the cache holds
C20_Witness ==
    /\ called = {"build_comparison_matrix", "get_default_weights",
                 "calculate_weighted_scores", "rank_products_by_score"}
    /\ Cardinality(matrix_cache) >= 3
    /\ cache_hit(matrix_cache, features, product_features)
    /\ matrix_df = _build_matrix(features, product_features)
    /\ Len(rankings) = 2

----------------------------------------------------------------------------
(* One AgentLogger under any sequence of log calls *)

\* most entries a logger holds in the model
MaxLogs == 3

LogTexts == {"Starting", "Done"}

InitLogger ==
    /\ session_state = [NoSession EXCEPT !.logger = AgentLogger]
    /\ features = <<>>
    /\ product_features = <<>>
    /\ feature_weights = <<>>
    /\ weighted_scores = <<>>
    /\ product_name = "Acme"
    /\ matrix_df = NoFrame
    /\ legacy_df = NoLegacyFrame
    /\ rankings = <<>>
    /\ weighted_df = NoLegacyFrame
    /\ none_args = {}
    /\ matrix_cache = {}
    /\ llm_calls = <<>>
    /\ llm_cache = {}
    /\ returned = NoValue
    /\ called = {}
    /\ raised = "none"

LogThought(text) ==
    /\ Len(session_state.logger.logs) < MaxLogs
    /\ session_state' = [session_state EXCEPT !.logger = log_thought(@, text)]
    /\ called' = called \cup {"log_thought"}
    /\ UNCHANGED <<engine_vars, llm_calls, llm_cache, returned, raised>>

LogAction(text) ==
    /\ Len(session_state.logger.logs) < MaxLogs
    /\ session_state' = [session_state EXCEPT !.logger = log_action(@, text)]
    /\ called' = called \cup {"log_action"}
    /\ UNCHANGED <<engine_vars, llm_calls, llm_cache, returned, raised>>

LogObservation(text) ==
    /\ Len(session_state.logger.logs) < MaxLogs
    /\ session_state' = [session_state EXCEPT !.logger = log_observation(@, text)]
    /\ called' = called \cup {"log_observation"}
    /\ UNCHANGED <<engine_vars, llm_calls, llm_cache, returned, raised>>

NextLogger ==
    \/ \E text \in LogTexts : LogThought(text)
    \/ \E text \in LogTexts : LogAction(text)
    \/ \E text \in LogTexts : LogObservation(text)

SpecLogger == InitLogger /\ [][NextLogger]_vars

\* the prefix the rendering gives each type of entry
OwnPrefix(type) ==
    CASE type = "thought"     -> "**Thought**: "
      [] type = "action"      -> "**Action**: "
      [] type = "observation" -> "**Observation**: "

\* every entry is rendered with the prefix of its own type
RenderedByType(logs) ==
    \A k \in 1..Len(logs) :
        /\ logs[k].type \in {"thought", "action", "observation"}
        /\ format_log_entry(logs[k]) = OwnPrefix(logs[k].type) \o logs[k].content

\* get_logs after the call is get_logs before it with one entry added at the end
Appended(type, text) ==
    get_logs(session_state'.logger) =
        get_logs(session_state.logger) \o <<[type |-> type, content |-> text]>>

\* C30: AgentLogger.logs is append-only and ordered: every call of
\* log_thought, log_action and log_observation adds exactly one entry at the
\* end, carrying the type and the text of the call, and changes or removes no
\* earlier entry; format_log_entry renders every entry with the prefix of its
\* own type, never the fallback.
C30_AppendOnlyLog ==
    [][ /\ \A text \in LogTexts :
              /\ LogThought(text) => Appended("thought", text)
              /\ LogAction(text) => Appended("action", text)
              /\ LogObservation(text) => Appended("observation", text)
        /\ RenderedByType(get_logs(session_state'.logger))
      ]_vars

\* a thought, an action and an observation, logged in that order
C30_Witness ==
    /\ called = {"log_thought", "log_action", "log_observation"}
    /\ get_logs(session_state.logger) =
          << [type |-> "thought", content |-> "Starting"],
             [type |-> "action", content |-> "Starting"],
             [type |-> "observation", content |-> "Done"] >>
    /\ format_log_entry(get_logs(session_state.logger)[3]) = "**Observation**: Done"

----------------------------------------------------------------------------
(* The LLM-calling functions and the disabled stores *)

\* the requests one behaviour sends to the OpenAI client at most
MaxCalls == 2

Competitor == [company_name |-> "Rival", product_name |-> "Beta"]

\* what call_openai_json raises: an error of the client, or ValueError
LLMErrors ==
    { [type |-> "RateLimitError", error |-> "Rate limit reached"],
      [type |-> "ValueError", error |-> "OpenAI returned invalid JSON"] }

LLMFailures == {[ok |-> FALSE, data |-> e] : e \in LLMErrors}

CompetitorOutcomes ==
    { [ok |-> TRUE, data |-> [competitors |-> <<Competitor>>]],
      [ok |-> TRUE, data |-> [competitors |-> <<[company_name |-> "Rival"]>>]],
      [ok |-> TRUE, data |-> [note |-> "nothing found"]] } \cup LLMFailures

FeatureOutcomes ==
    { [ok |-> TRUE, data |-> [features |-> Scenario1Catalog,
                              product_features |-> Scenario1Coverage]],
      [ok |-> TRUE, data |-> [note |-> "nothing found"]] } \cup LLMFailures

DifferentiatorOutcomes ==
    { [ok |-> TRUE,
       data |-> [differentiators |-> <<"Simple pricing">>,
                 missing_capabilities |->
                     <<[title |-> "API", description |-> "Rivals expose an API.",
                        importance |-> "High"]>>,
                 recommendations |-> <<"Ship an API">>]],
      [ok |-> TRUE, data |-> [note |-> "nothing found"]] } \cup LLMFailures

\* the call as the variables record it
Returned(fn, use_cache, r, stored) ==
    [fn |-> fn, use_cache |-> use_cache, raised |-> r.raised, message |-> r.message,
     is_none |-> r.is_none, value |-> r.value, stored |-> stored]

\* the value of a store function, which raises nothing
Stub(fn, result) ==
    [fn |-> fn, use_cache |-> FALSE, raised |-> "none", message |-> "",
     is_none |-> result.is_none, value |-> result.value, stored |-> {}]

InitLLM ==
    /\ session_state \in {[NoSession EXCEPT !.logger = l] : l \in {NoLogger, AgentLogger}}
    /\ features = Scenario1Catalog
    /\ product_features = Scenario1Coverage
    /\ feature_weights = <<>>
    /\ weighted_scores = <<>>
    /\ product_name = "Acme"
    /\ matrix_df = NoFrame
    /\ legacy_df = NoLegacyFrame
    /\ rankings = <<>>
    /\ weighted_df = NoLegacyFrame
    /\ none_args = {}
    /\ matrix_cache = {}
    /\ llm_calls = <<>>
    /\ llm_cache = {}
    /\ returned = NoValue
    /\ called = {}
    /\ raised = "none"

\* the behaviour goes on while the log and the requests are within the bounds
WithinBounds ==
    /\ Len(llm_calls) < MaxCalls
    /\ Len(session_state.logger.logs) < MaxLogs

DiscoverResult(use_cache, outcome) ==
    discover_competitors(product_name, "", "", session_state.logger, use_cache,
                         llm_cache, outcome)

ExtractResult(use_cache, outcome) ==
    extract_features(product_name, <<Competitor>>, "", session_state.logger, use_cache,
                     llm_cache, outcome)

AnalyzeResult(outcome) ==
    analyze_differentiators(product_name, features, product_features, llm_cache, outcome)

DiscoverCompetitors(use_cache, outcome) ==
    LET r == DiscoverResult(use_cache, outcome)
    IN  /\ WithinBounds
        /\ session_state' = [session_state EXCEPT !.logger = r.logger]
        /\ llm_calls' = llm_calls \o r.requests
        /\ llm_cache' = r.llm_cache
        /\ returned' = Returned("discover_competitors", use_cache, r, r.stores)
        /\ called' = called \cup {"discover_competitors"}
        /\ raised' = r.raised
        /\ UNCHANGED engine_vars

ExtractFeatures(use_cache, outcome) ==
    LET r == ExtractResult(use_cache, outcome)
    IN  /\ WithinBounds
        /\ session_state' = [session_state EXCEPT !.logger = r.logger]
        /\ llm_calls' = llm_calls \o r.requests
        /\ llm_cache' = r.llm_cache
        /\ returned' = Returned("extract_features", use_cache, r, r.stores)
        /\ called' = called \cup {"extract_features"}
        /\ raised' = r.raised
        /\ UNCHANGED engine_vars

AnalyzeDifferentiators(outcome) ==
    LET r == AnalyzeResult(outcome)
    IN  /\ WithinBounds
        /\ llm_calls' = llm_calls \o r.requests
        /\ llm_cache' = r.llm_cache
        /\ returned' = Returned("analyze_differentiators", FALSE, r, {})
        /\ called' = called \cup {"analyze_differentiators"}
        /\ raised' = r.raised
        /\ UNCHANGED <<engine_vars, session_state>>

\* a call of one of the functions that are to store something
StoreCall(fn, result) ==
    /\ returned' = Stub(fn, result)
    /\ called' = called \cup {fn}
    /\ raised' = "none"
    /\ UNCHANGED <<engine_vars, session_state, llm_calls, llm_cache>>

\* a call of one of the functions that are to look something up
Lookup(fn, result) ==
    /\ returned' = Stub(fn, result)
    /\ raised' = "none"
    /\ UNCHANGED <<engine_vars, session_state, llm_calls, llm_cache, called>>

CacheCompetitors ==
    StoreCall("cache_competitors", cache_competitors(product_name, "", "", <<Competitor>>))

CacheFeatures ==
    StoreCall("cache_features", cache_features(product_name, features, product_features))

SaveAnalysis ==
    StoreCall("save_analysis",
              [is_none |-> FALSE,
               value |-> save_analysis(product_name, "", "", <<Competitor>>, features,
                                       product_features)])

GetCachedCompetitors ==
    Lookup("get_cached_competitors", get_cached_competitors(product_name, "", ""))

GetCachedFeatures == Lookup("get_cached_features", get_cached_features(product_name))

GetAllAnalyses == Lookup("get_all_analyses", get_all_analyses)

GetAnalysisById == \E analysis_id \in {0, 1} :
    Lookup("get_analysis_by_id", get_analysis_by_id(analysis_id))

NextLLM ==
    \/ \E use_cache \in BOOLEAN, outcome \in CompetitorOutcomes :
           DiscoverCompetitors(use_cache, outcome)
    \/ \E use_cache \in BOOLEAN, outcome \in FeatureOutcomes :
           ExtractFeatures(use_cache, outcome)
    \/ \E outcome \in DifferentiatorOutcomes : AnalyzeDifferentiators(outcome)
    \/ CacheCompetitors
    \/ CacheFeatures
    \/ SaveAnalysis
    \/ GetCachedCompetitors
    \/ GetCachedFeatures
    \/ GetAllAnalyses
    \/ GetAnalysisById

SpecLLM == InitLLM /\ [][NextLLM]_vars

\* the exception message each function wraps a failure in
FailedPrefix(fn) ==
    CASE fn = "discover_competitors"    -> "Failed to discover competitors: "
      [] fn = "extract_features"        -> "Failed to extract features: "
      [] fn = "analyze_differentiators" -> "Failed to analyze differentiators: "

\* the call raised Exception with the wrapped message of the failure, returned
\* nothing and called no store function
Wrapped(fn, outcome) ==
    /\ returned'.fn = fn
    /\ returned'.raised = "Exception"
    /\ returned'.message = FailedPrefix(fn) \o outcome.data.error
    /\ returned'.is_none
    /\ returned'.stored = {}

\* the call sent its request to the OpenAI client, which failed
LLMCallFailed(outcome) == ~outcome.ok /\ llm_calls' # llm_calls

\* a step of discover_competitors, of extract_features, of analyze_differentiators
Discovered(use_cache, outcome) ==
    returned'.fn = "discover_competitors" /\ DiscoverCompetitors(use_cache, outcome)

Extracted(use_cache, outcome) ==
    returned'.fn = "extract_features" /\ ExtractFeatures(use_cache, outcome)

Analyzed(outcome) ==
    returned'.fn = "analyze_differentiators" /\ AnalyzeDifferentiators(outcome)

\* C22: each of discover_competitors, extract_features and
\* analyze_differentiators answers a failure of its LLM call by raising an
\* exception whose message is 'Failed to ...: ' followed by the original
\* message; it returns no partial result and stores nothing in the custom cache.
C22_FailureWrapped ==
    [][ /\ \A use_cache \in BOOLEAN, outcome \in CompetitorOutcomes :
              Discovered(use_cache, outcome) /\ LLMCallFailed(outcome)
                  => Wrapped("discover_competitors", outcome)
        /\ \A use_cache \in BOOLEAN, outcome \in FeatureOutcomes :
              Extracted(use_cache, outcome) /\ LLMCallFailed(outcome)
                  => Wrapped("extract_features", outcome)
        /\ \A outcome \in DifferentiatorOutcomes :
              Analyzed(outcome) /\ LLMCallFailed(outcome)
                  => Wrapped("analyze_differentiators", outcome)
      ]_vars

\* C22 for discover_competitors and extract_features alone, where it holds
FailureWrappedInDiscoveryAndExtraction ==
    [][ /\ \A use_cache \in BOOLEAN, outcome \in CompetitorOutcomes :
              Discovered(use_cache, outcome) /\ LLMCallFailed(outcome)
                  => Wrapped("discover_competitors", outcome)
        /\ \A use_cache \in BOOLEAN, outcome \in FeatureOutcomes :
              Extracted(use_cache, outcome) /\ LLMCallFailed(outcome)
                  => Wrapped("extract_features", outcome)
      ]_vars

\* analyze_differentiators has let the failure of its LLM call through as it was
DifferentiatorFailureUnwrapped ==
    /\ returned.fn = "analyze_differentiators"
    /\ returned.raised = "RateLimitError"
    /\ returned.message = "Rate limit reached"

\* the store functions return nothing that was stored
StoresReturnNothing ==
    /\ returned.fn \in {"get_cached_competitors", "get_cached_features",
                        "get_analysis_by_id"} => returned.is_none
    /\ returned.fn = "get_all_analyses" => ~returned.is_none /\ returned.value = <<>>

\* the call did what the same call with use_cache=False does
AsWithoutCache(fn, r) ==
    /\ returned'.fn = fn
    /\ returned'.raised = r.raised
    /\ returned'.message = r.message
    /\ returned'.is_none = r.is_none
    /\ returned'.value = r.value
    /\ session_state'.logger = r.logger
    /\ llm_calls' = llm_calls \o r.requests
    /\ llm_cache' = r.llm_cache

\* C23: the cache and database functions are no-ops: after any sequence of
\* cache_competitors, cache_features and save_analysis calls,
\* get_cached_competitors, get_cached_features and get_analysis_by_id return
\* None and get_all_analyses returns an empty list; so discover_competitors and
\* extract_features with use_cache=True never return from the custom-cache
\* branch and do what they do with use_cache=False.
C23_NoOpStores ==
    /\ []StoresReturnNothing
    /\ [][ /\ \A outcome \in CompetitorOutcomes :
                  Discovered(TRUE, outcome)
                      => AsWithoutCache("discover_competitors",
                                        DiscoverResult(FALSE, outcome))
           /\ \A outcome \in FeatureOutcomes :
                  Extracted(TRUE, outcome)
                      => AsWithoutCache("extract_features", ExtractResult(FALSE, outcome))
         ]_vars

\* discover_competitors with use_cache=True has asked the LLM although
\* competitors, features and an analysis had been handed to the stores
C23_Witness ==
    /\ {"cache_competitors", "cache_features", "save_analysis"} \subseteq called
    /\ returned.fn = "discover_competitors"
    /\ returned.use_cache
    /\ returned.value = <<Competitor>>
    /\ returned.stored = {"cache_competitors"}
    /\ Len(llm_calls) = 1

----------------------------------------------------------------------------
(* analyze_differentiators on arbitrary catalogs, coverage and LLM answers *)

\* entries of missing_capabilities as an LLM may return them: of a missing
\* name, of a name in another case, of no catalog name, and without a title
LLMEntries ==
    { [title |-> "API", description |-> "Rivals expose an API.", importance |-> "High"],
      [title |-> "sso", description |-> "Needed by enterprises.", importance |-> "Low"],
      [title |-> "Chat", description |-> "Nice to have.", importance |-> "Low"],
      [description |-> "Untitled.", importance |-> "High"] }

\* the entries one answer holds at most
MaxEntries == 2

CapabilityOutcomes ==
    {[ok |-> TRUE,
      data |-> [differentiators |-> <<>>, missing_capabilities |-> l,
                recommendations |-> <<>>]] : l \in SeqsUpTo(LLMEntries, MaxEntries)}
        \cup {[ok |-> TRUE, data |-> [note |-> "nothing found"]]}
        \cup {[ok |-> FALSE,
               data |-> [type |-> "RateLimitError", error |-> "Rate limit reached"]]}

OwnCoverageMaps ==
    {<<>>} \cup {<<[product |-> p, feature_list |-> l]>> :
                    p \in MatrixProducts, l \in CoverageLists}

InitDifferentiators ==
    /\ features \in Catalogs
    /\ product_features \in OwnCoverageMaps
    /\ feature_weights = <<>>
    /\ weighted_scores = <<>>
    /\ product_name = "Acme"
    /\ matrix_df = NoFrame
    /\ legacy_df = NoLegacyFrame
    /\ rankings = <<>>
    /\ weighted_df = NoLegacyFrame
    /\ none_args = {}
    /\ matrix_cache = {}
    /\ session_state = NoSession
    /\ llm_calls = <<>>
    /\ llm_cache = {}
    /\ returned = NoValue
    /\ called = {}
    /\ raised = "none"

NextDifferentiators == \E outcome \in CapabilityOutcomes : AnalyzeDifferentiators(outcome)

SpecDifferentiators == InitDifferentiators /\ [][NextDifferentiators]_vars

\* what the LLM wrapper answers the call with: the held answer or the new one
LLMAnswer(outcome) ==
    _cached_differentiator_llm(
        differentiator_messages(product_name, features, product_features),
        llm_cache, outcome)

\* the catalog names the main product's coverage list does not hold
MissingSet ==
    Range(legacy_feature_names(features))
        \ Range(coverage_get(product_features, product_name, <<>>))

\* the entries of the answer that carry the title
Titled(answer, title) ==
    {m \in Range(dict_get(answer, "missing_capabilities", <<>>)) :
        "title" \in DOMAIN m /\ m["title"] = title}

\* one entry per missing name, in ascending name order: an LLM entry of that
\* title, or the placeholder when the LLM gave none
MissingMerged(result, answer) ==
    /\ result.raised = "none"
    /\ LET caps == result.value.missing_capabilities
       IN  /\ Len(caps) = Cardinality(MissingSet)
           /\ {caps[i]["title"] : i \in 1..Len(caps)} = MissingSet
           /\ Ascending([i \in 1..Len(caps) |-> caps[i]["title"]])
           /\ \A i \in 1..Len(caps) :
                  IF Titled(answer, caps[i]["title"]) # {}
                  THEN caps[i] \in Titled(answer, caps[i]["title"])
                  ELSE caps[i] = missing_capability_object(product_name, caps[i]["title"])

\* C29: when the LLM call succeeds, missing_capabilities holds exactly one
\* entry per catalog feature name that is not in the main product's coverage
\* list (every catalog name when the product has no coverage entry), in
\* ascending name order, whatever the LLM returned: the LLM's entry when its
\* title equals the name, else the placeholder of importance 'Medium'; LLM
\* entries of other titles are dropped.
C29_MissingCapabilities ==
    [][ \A outcome \in CapabilityOutcomes :
            Analyzed(outcome) /\ LLMAnswer(outcome).ok
                => MissingMerged(returned', LLMAnswer(outcome).data)
      ]_vars

\* every entry of the answer carries a title
AllTitled(answer) ==
    \A m \in Range(dict_get(answer, "missing_capabilities", <<>>)) : "title" \in DOMAIN m

\* C29 for the answers in which every entry carries a title, where it holds
TitledEntriesMerged ==
    [][ \A outcome \in CapabilityOutcomes :
            Analyzed(outcome) /\ LLMAnswer(outcome).ok /\ AllTitled(LLMAnswer(outcome).data)
                => MissingMerged(returned', LLMAnswer(outcome).data)
      ]_vars

\* the answer was parsed and cached, and the merge raised KeyError on an entry
\* without a title
UntitledEntryRaises ==
    /\ returned.fn = "analyze_differentiators"
    /\ returned.raised = "KeyError"
    /\ returned.message = "'title'"
    /\ llm_cache # {}

\* an LLM entry replaced the placeholder of API and the placeholder of SSO is kept
MergedWithPlaceholder ==
    /\ returned.fn = "analyze_differentiators"
    /\ returned.raised = "none"
    /\ ~returned.is_none
    /\ Len(returned.value.missing_capabilities) = 2
    /\ returned.value.missing_capabilities[1].importance = "High"
    /\ returned.value.missing_capabilities[2] = missing_capability_object("Acme", "SSO")

----------------------------------------------------------------------------
(* app.py: the session state, the Analyze click and the Clear Results click *)

\* loop.run_until_complete(coro): what is passed is awaited when it is a
\* coroutine; anything else is refused with TypeError
run_async(coro) ==
    IF coro.awaitable
    THEN [raised |-> "none", message |-> "", value |-> coro.value]
    ELSE [raised |-> "TypeError",
          message |-> "An asyncio.Future, a coroutine or an awaitable is required",
          value |-> <<>>]

\* what a call of a plain def hands to run_async: its return value, no coroutine
plain_result(value) == [awaitable |-> FALSE, value |-> value]

\* the except branch logging the message as an error
fatal_error_unmarked(logger, message) == log_observation(logger, "Error: " \o message)

\* the except branch of the Analyze handler: the message goes to the log
fatal_error(logger, message) == log_observation(logger, "Fatal error: " \o message)

\* the run has stopped at st.stop(): nothing is written, nothing is asked
stopped(state, cache, mcache) ==
    [ended |-> "stopped", message |-> "", session_state |-> state, llm_cache |-> cache,
     matrix_cache |-> mcache, requests |-> <<>>]

\* the run has ended in the except branch
failed(state, logger, message, cache, mcache, requests) ==
    [ended |-> "failed", message |-> message,
     session_state |-> [state EXCEPT !.logger = fatal_error(logger, message)],
     llm_cache |-> cache, matrix_cache |-> mcache, requests |-> requests]

\* the Clear Results button is rendered
clear_offered(state) == state.analysis_complete

\* the Clear Results click
clear_results(state) ==
    [state EXCEPT !.analysis_complete = FALSE, !.results = <<>>, !.logger = NoLogger]

\* the Analyze click, from the validation to the end of the try statement
analyze_click(state, name, has_key, cache, mcache, found, extracted, analyzed) ==
    IF ~validate_product_name(name) THEN stopped(state, cache, mcache)
    ELSE IF ~has_key THEN stopped(state, cache, mcache)
    ELSE
    LET product_name_clean == sanitize_input(name)
        d == discover_competitors(product_name_clean, "", "", AgentLogger, TRUE,
                                  cache, found)
        competitors == run_async(plain_result(d.value))
    IN  IF d.raised # "none"
        THEN failed(state, d.logger, d.message, d.llm_cache, mcache, d.requests)
        ELSE IF competitors.raised # "none"
        THEN failed(state, d.logger, competitors.message, d.llm_cache, mcache, d.requests)
        ELSE
        LET e == extract_features(product_name_clean, competitors.value, "", d.logger,
                                  TRUE, d.llm_cache, extracted)
            feature_data == run_async(plain_result(e.value))
        IN  IF e.raised # "none"
            THEN failed(state, e.logger, e.message, e.llm_cache, mcache,
                        d.requests \o e.requests)
            ELSE IF feature_data.raised # "none"
            THEN failed(state, e.logger, feature_data.message, e.llm_cache, mcache,
                        d.requests \o e.requests)
            ELSE
            LET fs == feature_data.value["features"]
                pf == feature_data.value["product_features"]
                df == IF cache_hit(mcache, fs, pf) THEN cache_value(mcache, fs, pf)
                      ELSE build_comparison_matrix(fs, pf)
                a == analyze_differentiators(product_name_clean, fs, pf, e.llm_cache,
                                             analyzed)
            IN  IF a.raised # "none"
                THEN failed(state, e.logger, a.message, a.llm_cache,
                            cache_store(mcache, fs, pf, df),
                            d.requests \o e.requests \o a.requests)
                ELSE [ended |-> "complete", message |-> "",
                      session_state |->
                          [state EXCEPT
                              !.logger = e.logger,
                              !.results =
                                  [product_name |-> product_name_clean,
                                   competitors |-> competitors.value,
                                   features |-> fs,
                                   product_features |-> pf,
                                   matrix_df |-> df,
                                   analysis |-> a.value],
                              !.analysis_complete = TRUE],
                      llm_cache |-> a.llm_cache,
                      matrix_cache |-> cache_store(mcache, fs, pf, df),
                      requests |-> d.requests \o e.requests \o a.requests]

\* what the page shows under the controls after the script has run
log_displayed(state) == ~state.logger.is_none /\ get_logs(state.logger) # <<>>

results_displayed(state) == state.analysis_complete /\ state.results # <<>>

\* the text of the product name field
NameInputs == {"", "  ", " Slack ", "Slack", "Notion"}

InitApp ==
    /\ session_state = NoSession
    /\ features = <<>>
    /\ product_features = <<>>
    /\ feature_weights = <<>>
    /\ weighted_scores = <<>>
    /\ product_name = ""
    /\ matrix_df = NoFrame
    /\ legacy_df = NoLegacyFrame
    /\ rankings = <<>>
    /\ weighted_df = NoLegacyFrame
    /\ none_args = {}
    /\ matrix_cache = {}
    /\ llm_calls = <<>>
    /\ llm_cache = {}
    /\ returned = NoValue
    /\ called = {}
    /\ raised = "none"

\* what the later LLM calls of a run do: an answer, or a failure
RunFeatureOutcomes ==
    {o \in FeatureOutcomes : dict_get(o.data, "type", "RateLimitError") = "RateLimitError"
                                /\ "note" \notin DOMAIN o.data}

RunDifferentiatorOutcomes ==
    {o \in DifferentiatorOutcomes :
        dict_get(o.data, "type", "RateLimitError") = "RateLimitError"
            /\ "note" \notin DOMAIN o.data}

\* the run the click starts, on the present state
Run(name, has_key, found, extracted, analyzed) ==
    analyze_click(session_state, name, has_key, llm_cache, matrix_cache,
                  found, extracted, analyzed)

\* the user types a product name and clicks Analyze; returned records how the
\* run ended and for which name
Analyze(name, has_key, found, extracted, analyzed) ==
    LET run == Run(name, has_key, found, extracted, analyzed)
    IN  /\ Len(llm_calls) < MaxCalls
        /\ product_name' = name
        /\ session_state' = run.session_state
        /\ llm_calls' = llm_calls \o run.requests
        /\ llm_cache' = run.llm_cache
        /\ matrix_cache' = run.matrix_cache
        /\ returned' = [NoValue EXCEPT !.fn = "analyze_button", !.raised = run.ended,
                                       !.message = run.message]
        /\ called' = called \cup {"analyze_button"}
        /\ raised' = IF run.ended = "failed" THEN "Exception" ELSE "none"
        /\ UNCHANGED <<features, product_features, feature_weights, weighted_scores,
                       matrix_df, legacy_df, rankings, weighted_df, none_args>>

NextApp ==
    \E name \in NameInputs, has_key \in BOOLEAN, found \in CompetitorOutcomes,
       extracted \in RunFeatureOutcomes, analyzed \in RunDifferentiatorOutcomes :
        Analyze(name, has_key, found, extracted, analyzed)

SpecApp == InitApp /\ [][NextApp]_vars

\* the six keys of the results of a completed run
ResultKeys ==
    {"product_name", "competitors", "features", "product_features", "matrix_df",
     "analysis"}

\* names that are empty or hold nothing but whitespace, and names as typed
\* without surrounding whitespace
BlankNames == {"", "  "}

StrippedNames == {"Slack", "Notion"}

\* C24: when Analyze is clicked with a valid product name, the API key
\* present and every LLM call succeeding, the run ends with
\* analysis_complete = True and results holding the six keys: passing the
\* synchronous results through run_async does not abort the run.
C24_RunCompletes ==
    [][ \A name \in NameInputs \ BlankNames, found \in CompetitorOutcomes,
           extracted \in RunFeatureOutcomes, analyzed \in RunDifferentiatorOutcomes :
            found.ok /\ extracted.ok /\ analyzed.ok
                /\ Analyze(name, TRUE, found, extracted, analyzed)
                => /\ session_state'.analysis_complete
                   /\ DOMAIN session_state'.results = ResultKeys
      ]_vars

\* the competitors were found and the run ended in the except branch, on the
\* TypeError of run_async
RunAbortedByRunAsync ==
    /\ returned.fn = "analyze_button"
    /\ returned.raised = "failed"
    /\ returned.message = "An asyncio.Future, a coroutine or an awaitable is required"
    /\ Len(llm_calls) = 1
    /\ llm_cache # {}
    /\ ~session_state.analysis_complete
    /\ session_state.results = <<>>

\* no run of the web app completes: every run that passes the two checks ends
\* in the except branch
AnalysisNeverCompletes ==
    /\ ~session_state.analysis_complete
    /\ session_state.results = <<>>
    /\ returned.fn = "analyze_button" => returned.raised \in {"stopped", "failed"}

\* the messages a failed run can carry
FailureMessages ==
    {"Failed to discover competitors: " \o e.error : e \in LLMErrors}
        \cup {"Failed to extract features: " \o e.error : e \in LLMErrors}
        \cup {e.error : e \in LLMErrors}
        \cup {"An asyncio.Future, a coroutine or an awaitable is required",
               "'title'", "'feature_name'"}

\* the log is the one of the run for this name and ends with the fatal error
FatalErrorLogged(logger, name) ==
    /\ ~logger.is_none
    /\ get_logs(logger) # <<>>
    /\ get_logs(logger)[1] =
          [type |-> "thought",
           content |-> "Starting competitor discovery for product: " \o name]
    /\ \E message \in FailureMessages :
          get_logs(logger)[Len(get_logs(logger))] =
              [type |-> "observation", content |-> "Fatal error: " \o message]

C27_InvalidClickStops ==
    /\ [](\A k \in 1..Len(llm_calls) : llm_calls[k].product_name \in StrippedNames)
    /\ [][ \A name \in NameInputs, has_key \in BOOLEAN, found \in CompetitorOutcomes,
               extracted \in RunFeatureOutcomes, analyzed \in RunDifferentiatorOutcomes :
                (name \in BlankNames \/ ~has_key)
                    /\ Analyze(name, has_key, found, extracted, analyzed)
                    => /\ session_state' = session_state
                       /\ llm_calls' = llm_calls
                       /\ llm_cache' = llm_cache
          ]_vars

\* after a failed run for ' Slack ', a click with a blank name has stopped and
\* left the log of that run in place
C27_Witness ==
    /\ returned.fn = "analyze_button"
    /\ returned.raised = "stopped"
    /\ product_name = "  "
    /\ llm_calls = <<[fn |-> "cached_llm_competitor_discovery", product_name |-> "Slack"]>>
    /\ log_displayed(session_state)
    /\ ~results_displayed(session_state)

====
